---- MODULE Spec2Model ----
(***************************************************************************)
(* Model of the authorization core of the Pearls server:                   *)
(*   - the access control evaluator (services/thread-service.ts),          *)
(*   - the OAuth authorization-code / token issuer (routes/oauth.ts),      *)
(*   - the identity resolver (middleware/auth.ts, services/workos.ts,      *)
(*     scripts/generate-api-key.ts),                                       *)
(*   - the write path of the content service (services/pearl-service.ts    *)
(*     and the tools that call it),                                        *)
(*   - the read path of the content service and the tool dispatcher        *)
(*     behind POST /mcp (mcp/tools, mcp/server.ts, routes/health.ts).      *)
(* Each part has its own specification (Spec, SpecOAuth, SpecRefresh,      *)
(* SpecConcurrent, SpecIdentity, SpecContent, SpecTools, SpecCorrect); the *)
(* variables of the other parts stay unchanged under it. SpecConcurrent    *)
(* runs the callback and token handlers step by step, split at their       *)
(* awaits.                                                                 *)
(***************************************************************************)
EXTENDS Integers, FiniteSets, Sequences, TLC

VARIABLES
    threads,            \* rows of table threads: [id, slug, isPublic, createdBy]
    threadAccess,       \* rows of table thread_access: [threadId, role, permission]
    probe,              \* the caller and arguments the thread service is called with
    ret,                \* the last operation on the services and its result
    pearls,             \* rows of table pearls: [id, threadId, createdAt, createdBy,
                        \* status, parentPearl, metadata]
    correction,         \* the arguments mark-corrected is called with
    authorizationCodes, \* the in-memory Map of oauth.ts (pending records and codes)
    refreshTokens,      \* rows of table refresh_tokens
    codesIssued,        \* the authorization codes the callback redirected to clients
    tokensIssued,       \* the token responses sent, each with the code it answered
    now,                \* Date.now(), in units of five minutes
    nextRand,           \* the next value crypto.randomBytes returns (fresh each call)
    tokenDraws,         \* how many of the values drawn were refresh tokens
    resp,               \* the last request to an OAuth route and its response
    apiKeys,            \* rows of table api_keys
    identity,           \* the last credential resolved, the state of the key store
                        \* and its enabled rows for the credential at the call,
                        \* and the AuthContext returned
    minted,             \* the access token the last OAuth response carried
    results,            \* the records the last tool call returned
    res,                \* the last request to POST /mcp and the response sent
    requests            \* the callback and token requests handled step by step, in
                        \* order of arrival, each with its position and outcome

vars == <<threads, threadAccess, probe, ret, pearls, correction, authorizationCodes, refreshTokens,
          codesIssued, tokensIssued, now,
          nextRand, tokenDraws, resp, apiKeys, identity, minted, results, res, requests>>

accessVars   == <<threads, threadAccess, probe, ret, pearls, correction>>
oauthVars    == <<authorizationCodes, refreshTokens, codesIssued, tokensIssued, now,
                 nextRand, tokenDraws, resp, minted, requests>>
identityVars == <<apiKeys, identity>>
toolVars     == <<results, res>>

Null == "null"
\* an absent list, an absent token, an absent header
NullList == {Null}
NoToken == [kind |-> "none"]
NoHeader == [scheme |-> Null, token |-> NoToken]
\* no access token signed yet
NoAccessToken == [userId |-> Null, email |-> Null, roles |-> {}]

\* JavaScript truthiness of an optional string
Truthy(x) == x # Null /\ x # ""

----------------------------------------------------------------------------
(* Bounds *)

MaxThreads == 2     \* threads created
MaxGrants  == 1     \* rows of thread_access
MaxRand    == 2     \* correlation values and codes drawn from crypto.randomBytes
MaxTokens  == 2     \* refresh tokens drawn from crypto.randomBytes
MaxTime    == 3     \* the clock stops here (units of five minutes)
MaxKeys    == 2     \* rows of api_keys
MaxPearls  == 2     \* rows of pearls
MaxRequests == 3    \* callback and token requests handled step by step

----------------------------------------------------------------------------
(* Roles, permissions, identities *)

Roles == {"anonymous", "authenticated", "admin", "aurora:member"}
Permission == {"read", "write", "admin"}
Slugs == {"s1", "s2"}

\* static role configuration (config/env.ts): ADMIN_USER_IDS, AURORA_MEMBER_IDS
Users == {"u_admin", "u_member", "u_plain"}
adminUserIds == {"u_admin"}
auroraMemberIds == {"u_member"}

AnonymousContext ==
    [userId |-> Null, email |-> Null, roles |-> {"anonymous"}, isAnonymous |-> TRUE]

\* role lists of verified identities: the four lists resolveUserRoles can
\* return, and a list only a service key can carry
RoleLists ==
    {{"authenticated"}, {"authenticated", "admin"},
     {"authenticated", "aurora:member"},
     {"authenticated", "admin", "aurora:member"},
     {"anonymous", "aurora:member"}}

\* the callers of the thread service
CallerContexts ==
    {AnonymousContext} \cup
    {[userId |-> "u_plain", email |-> Null, roles |-> rs, isAnonymous |-> FALSE] :
        rs \in RoleLists}

----------------------------------------------------------------------------
(* services/thread-service.ts *)

\* the ids of the threads that can exist and one id of no thread
ThreadIds == 1..(Cardinality(Slugs) + 1)

\* a hierarchy that is not closed upwards: each permission satisfies only itself
permissionHierarchy_flat ==
    [read  |-> {"read"},
     write |-> {"write"},
     admin |-> {"admin"}]

permissionHierarchy ==
    [read  |-> {"read", "write", "admin"},
     write |-> {"write", "admin"},
     admin |-> {"admin"}]

\* checkThreadAccess without the admin bypass
checkThreadAccess_noBypass(threadId, auth, requiredPermission) ==
    IF requiredPermission = "read"
       /\ \E t \in threads : t.id = threadId /\ t.isPublic
    THEN TRUE
    ELSE \E a \in threadAccess :
            /\ a.threadId = threadId
            /\ a.role \in auth.roles
            /\ a.permission \in permissionHierarchy[requiredPermission]

\* checkThreadAccess whose public shortcut is skipped for the anonymous identity
checkThreadAccess_publicAuthOnly(threadId, auth, requiredPermission) ==
    IF "admin" \in auth.roles THEN TRUE
    ELSE IF requiredPermission = "read" /\ ~auth.isAnonymous
            /\ \E t \in threads : t.id = threadId /\ t.isPublic
    THEN TRUE
    ELSE \E a \in threadAccess :
            /\ a.threadId = threadId
            /\ a.role \in auth.roles
            /\ a.permission \in permissionHierarchy[requiredPermission]

checkThreadAccess(threadId, auth, requiredPermission) ==
    IF "admin" \in auth.roles THEN TRUE
    ELSE IF requiredPermission = "read"
            /\ \E t \in threads : t.id = threadId /\ t.isPublic
    THEN TRUE
    ELSE LET validPermissions == permissionHierarchy[requiredPermission]
         IN  \E a \in threadAccess :
                /\ a.threadId = threadId
                /\ a.role \in auth.roles
                /\ a.permission \in validPermissions

\* the rows returned; ORDER BY name only permutes them, so the result is
\* kept as the set of rows
\* listAccessibleThreads returning nothing when the identity has no grant
listAccessibleThreads_noPublic(auth) ==
    IF "admin" \in auth.roles THEN threads
    ELSE LET threadIds == {a.threadId : a \in {x \in threadAccess : x.role \in auth.roles}}
         IN  IF threadIds = {}
             THEN {}
             ELSE {t \in threads : t.isPublic \/ t.id \in threadIds}

listAccessibleThreads(auth) ==
    IF "admin" \in auth.roles THEN threads
    ELSE LET threadIds == {a.threadId : a \in {x \in threadAccess : x.role \in auth.roles}}
         IN  IF threadIds = {}
             THEN {t \in threads : t.isPublic}
             ELSE {t \in threads : t.isPublic \/ t.id \in threadIds}

\* INSERT INTO threads ... RETURNING: a fresh id; isPublic defaults to false
createThread(data, auth) ==
    [id |-> Cardinality(threads) + 1, slug |-> data.slug,
     isPublic |-> data.isPublic, createdBy |-> auth.userId]

\* INSERT ... ON CONFLICT DO NOTHING; the table is kept as the set of its
\* (threadId, role, permission) triples
grantThreadAccess(table, threadId, role, permission) ==
    table \cup {[threadId |-> threadId, role |-> role, permission |-> permission]}

\* the loop of handleThreadCreate over grant_access
grantAll(table, threadId, grant_access) ==
    table \cup UNION {grantThreadAccess({}, threadId, g.role, g.permission) :
                        g \in grant_access}

----------------------------------------------------------------------------
(* Operations on the thread service *)

GrantInputs == [role : Roles, permission : Permission]

\* the grant_access arrays a call can carry within the bound on the table
GrantLists ==
    {{}} \cup {{g} : g \in GrantInputs} \cup
    {{g, h} : g \in GrantInputs, h \in GrantInputs}

\* a guard that lets every caller through
adminRequired_never(auth) ==
    FALSE

\* "if (!auth.roles.includes('admin')) throw"
adminRequired(auth) ==
    "admin" \notin auth.roles

\* a column without the unique constraint
slugTaken_never(slug) ==
    FALSE

\* slug: text('slug').notNull().unique(): the insert of a taken slug throws
slugTaken(slug) ==
    \E t \in threads : t.slug = slug

\* mcp/tools/thread-create.ts handleThreadCreate
HandleThreadCreate(auth, slug, isPublic, grant_access) ==
    /\ Cardinality(threads) < MaxThreads
    /\ Cardinality(threadAccess) + Cardinality(grant_access) <= MaxGrants
    /\ IF adminRequired(auth)
       THEN /\ ret' = [op |-> "thread_create", result |-> "error_admin_required"]
            /\ UNCHANGED <<threads, threadAccess>>
       ELSE IF slugTaken(slug)
       THEN \* unique constraint on threads.slug: the insert throws
            /\ ret' = [op |-> "thread_create", result |-> "error_unique_slug"]
            /\ UNCHANGED <<threads, threadAccess>>
       ELSE LET thread == createThread([slug |-> slug, isPublic |-> isPublic], auth)
            IN  /\ threads' = threads \cup {thread}
                /\ threadAccess' = grantAll(threadAccess, thread.id, grant_access)
                /\ ret' = [op |-> "thread_create", result |-> "success"]
    /\ results' = <<>>
    /\ UNCHANGED <<probe, pearls, correction, oauthVars, identityVars>>

\* a call of checkThreadAccess (by createPearl, getRecentPearls, ...)
CheckThreadAccess ==
    /\ ret' = [op |-> "checkThreadAccess",
               result |-> checkThreadAccess(probe.threadId, probe.auth,
                                            probe.permission)]
    /\ UNCHANGED <<threads, threadAccess, probe, pearls, correction, oauthVars,
                   identityVars, toolVars>>

\* mcp/tools/thread-list.ts handleThreadList -> listAccessibleThreads
HandleThreadList(auth) ==
    /\ ret' = [op |-> "thread_list", result |-> listAccessibleThreads(auth)]
    /\ results' = <<>>
    /\ UNCHANGED <<threads, threadAccess, probe, pearls, correction, oauthVars,
                   identityVars>>


----------------------------------------------------------------------------
(* services/pearl-service.ts and the tools pearl_create, pearl_handshake,
   pearl_correct *)

\* an absent pearl id (null / undefined) and an id no row has
NoPearl == 0
UnknownPearl == 0 - 1

\* getThreadBySlug: the set holding the thread, empty for null
getThreadBySlug(slug) == {t \in threads : t.slug = slug}

\* getPearlById: the set holding the row, empty for null
getPearlById(id) == {p \in pearls : p.id = id}

\* a test that is satisfied by read access
hasAccess_read(threadId, auth) ==
    checkThreadAccess(threadId, auth, "read")

\* "const hasAccess = await checkThreadAccess(thread.id, auth, 'write')"
hasAccess(threadId, auth) ==
    checkThreadAccess(threadId, auth, "write")

\* a guard that lets every caller through
rejectAnonymous_never(auth) ==
    FALSE

\* "if (auth.isAnonymous) throw": the guard at the head of the write tools
rejectAnonymous(auth) ==
    auth.isAnonymous

\* a createPearl that skips the access check
createPearlResult_noCheck(thread, auth) ==
    IF getThreadBySlug(thread) = {} THEN "error_thread_not_found" ELSE "success"

\* createPearl: what the call raises, or success
createPearlResult(thread, auth) ==
    LET found == getThreadBySlug(thread)
    IN  IF found = {} THEN "error_thread_not_found"
        ELSE IF ~hasAccess((CHOOSE t \in found : TRUE).id, auth)
        THEN "error_no_write_access"
        ELSE "success"

\* the row createPearl inserts (id by defaultRandom, status by its default,
\* createdAt by defaultNow: the clock reads of successive inserts increase)
insertedPearl(thread, auth) ==
    [id |-> Cardinality(pearls) + 1,
     threadId |-> (CHOOSE t \in getThreadBySlug(thread) : TRUE).id,
     createdAt |-> Cardinality(pearls) + 1,
     createdBy |-> auth.userId,
     status |-> "active",
     parentPearl |-> NoPearl,
     metadata |-> [correctedBy |-> Null]]

\* createPearl as a step on the table
createPearl(thread, auth, op) ==
    LET result == createPearlResult(thread, auth)
    IN  IF result # "success"
        THEN /\ ret' = [op |-> op, result |-> result]
             /\ UNCHANGED pearls
        ELSE /\ Cardinality(pearls) < MaxPearls
             /\ pearls' = pearls \cup {insertedPearl(thread, auth)}
             /\ ret' = [op |-> op, result |-> "success"]

\* mcp/tools/pearl-create.ts handlePearlCreate
HandlePearlCreate(auth, thread) ==
    /\ IF rejectAnonymous(auth)
       THEN /\ ret' = [op |-> "pearl_create", result |-> "error_auth_required"]
            /\ UNCHANGED pearls
       ELSE createPearl(thread, auth, "pearl_create")
    /\ results' = <<>>
    /\ UNCHANGED <<threads, threadAccess, probe, correction, oauthVars, identityVars>>

\* the limits of the read path, scaled: 10 and 50 in getRecentPearls and
\* searchPearls, 3 and 10 in the handshake
DefaultLimit == 1
MaxLimit == 2
HandshakeLimit == 1
HandshakeMaxLimit == 2

\* an absent limit, an absent cursor, a cursor that is no ISO timestamp
NoLimit == 0 - 1
NoCursor == 0
BadCursor == 0 - 1

\* "const limit = Math.min(input.limit || 10, 50)"
limitOf(limit) ==
    LET given == IF limit = NoLimit \/ limit = 0 THEN DefaultLimit ELSE limit
    IN  IF given < MaxLimit THEN given ELSE MaxLimit

\* a read test every caller passes
canRead_always(threadId, auth) ==
    TRUE

\* "const hasAccess = await checkThreadAccess(thread.id, auth, 'read')"
canRead(threadId, auth) ==
    checkThreadAccess(threadId, auth, "read")

\* a filter that keeps every thread
accessibleThreadIds_all(auth) ==
    {t.id : t \in threads}

\* threads LEFT JOIN thread_access WHERE is_public OR role IN auth.roles
accessibleThreadIds(auth) ==
    {t.id : t \in {x \in threads :
                    \/ x.isPublic
                    \/ \E a \in threadAccess :
                            a.threadId = x.id /\ a.role \in auth.roles}}

\* a cursor that lets the record created at the cursor through
beforeCursor_inclusive(table, before) ==
    IF before # NoCursor THEN {p \in table : p.createdAt <= before} ELSE table

\* "if (input.before) conditions.push(lt(pearls.createdAt, new Date(input.before)))"
beforeCursor(table, before) ==
    IF before # NoCursor THEN {p \in table : p.createdAt < before} ELSE table

\* an ordering by creation timestamp ascending
orderByCreatedAtDesc_asc(table) ==
    {s \in [1..Cardinality(table) -> table] :
        /\ \A i, j \in 1..Cardinality(table) : i # j => s[i] # s[j]
        /\ \A i, j \in 1..Cardinality(table) : i < j => s[i].createdAt <= s[j].createdAt}

\* ORDER BY created_at DESC: the orders the database may return the rows in
\* (rows of equal timestamp in either order)
orderByCreatedAtDesc(table) ==
    {s \in [1..Cardinality(table) -> table] :
        /\ \A i, j \in 1..Cardinality(table) : i # j => s[i] # s[j]
        /\ \A i, j \in 1..Cardinality(table) : i < j => s[i].createdAt >= s[j].createdAt}

\* LIMIT n
limitRows(s, n) ==
    [i \in 1..(IF Len(s) < n THEN Len(s) ELSE n) |-> s[i]]

\* the early "return []" of the read path: the slug names no thread, the
\* caller may not read the thread, or a non-admin has no accessible thread
returnsEmpty(thread, auth) ==
    IF Truthy(thread)
    THEN LET found == getThreadBySlug(thread)
         IN  \/ found = {}
             \/ ~canRead((CHOOSE t \in found : TRUE).id, auth)
    ELSE "admin" \notin auth.roles /\ accessibleThreadIds(auth) = {}

\* the rows the query of the read path selects from: those of the thread,
\* those of the accessible threads, or all for an admin
readableRows(thread, auth) ==
    IF Truthy(thread)
    THEN {p \in pearls : \E t \in getThreadBySlug(thread) : p.threadId = t.id}
    ELSE IF "admin" \notin auth.roles
    THEN {p \in pearls : p.threadId \in accessibleThreadIds(auth)}
    ELSE pearls

\* getRecentPearls: the results the call may return
getRecentPearls(thread, limit, before, auth) ==
    IF returnsEmpty(thread, auth) THEN {<<>>}
    ELSE {limitRows(s, limitOf(limit)) :
            s \in orderByCreatedAtDesc(beforeCursor(readableRows(thread, auth), before))}

\* searchPearls: the rows matching the query are any of the readable rows
\* and LIMIT caps them; the rank they are ordered by is the database's, and
\* the result is kept in the order of creation
searchPearls(thread, limit, auth) ==
    IF returnsEmpty(thread, auth) THEN {<<>>}
    ELSE UNION {{limitRows(s, limitOf(limit)) : s \in orderByCreatedAtDesc(matching)} :
                matching \in SUBSET readableRows(thread, auth)}

\* inputSchema.parse of pearl_recent throws: limit outside 1..50 or a cursor
\* that is no ISO timestamp
recentInputInvalid(limit, before) ==
    \/ limit # NoLimit /\ (limit < 1 \/ limit > MaxLimit)
    \/ before = BadCursor

\* mcp/tools/pearl-recent.ts handlePearlRecent
HandlePearlRecent(auth, thread, limit, before) ==
    /\ IF recentInputInvalid(limit, before)
       THEN /\ ret' = [op |-> "pearl_recent", result |-> "error_validation"]
            /\ results' = <<>>
       ELSE /\ ret' = [op |-> "pearl_recent", result |-> "success"]
            /\ results' \in getRecentPearls(thread, limit, before, auth)
    /\ UNCHANGED <<threads, threadAccess, probe, pearls, correction, oauthVars,
                   identityVars>>

\* mcp/tools/pearl-search.ts handlePearlSearch; dbOk is false when
\* pool.connect or the query throws
HandlePearlSearch(auth, thread, limit) ==
    /\ IF limit # NoLimit /\ (limit < 1 \/ limit > MaxLimit)
       THEN /\ ret' = [op |-> "pearl_search", result |-> "error_validation"]
            /\ results' = <<>>
       ELSE \E dbOk \in BOOLEAN :
                IF dbOk \/ returnsEmpty(thread, auth)
                THEN /\ ret' = [op |-> "pearl_search", result |-> "success"]
                     /\ results' \in searchPearls(thread, limit, auth)
                ELSE /\ ret' = [op |-> "pearl_search", result |-> "error_store"]
                     /\ results' = <<>>
    /\ UNCHANGED <<threads, threadAccess, probe, pearls, correction, oauthVars,
                   identityVars>>

\* the slugs the handshake reads: "targetSlugs.filter(slug =>
\* accessibleThreads.some(t => t.slug === slug))"; an absent list stands for
\* every accessible thread, an empty list for none
validSlugs(threadsArg, auth) ==
    LET accessibleThreads == listAccessibleThreads(auth)
        targetSlugs == IF threadsArg # NullList THEN threadsArg
                       ELSE {t.slug : t \in accessibleThreads}
    IN  {slug \in targetSlugs : \E t \in accessibleThreads : t.slug = slug}

\* pearlsByThread: the recent rows of each slug; the result object is kept
\* as the rows of its entries, one slug after the other
RECURSIVE pearlsByThread(_, _, _)
pearlsByThread(slugs, limit, auth) ==
    IF slugs = {} THEN {<<>>}
    ELSE LET slug == CHOOSE x \in slugs : TRUE
         IN  {recent \o rest :
                recent \in getRecentPearls(slug, limit, NoCursor, auth),
                rest \in pearlsByThread(slugs \ {slug}, limit, auth)}

\* mcp/tools/pearl-handshake.ts handlePearlHandshake (threads, limit,
\* response and response_thread are optional)
HandlePearlHandshake(auth, threadsArg, limit, response, response_thread) ==
    /\ IF limit # NoLimit /\ (limit < 1 \/ limit > HandshakeMaxLimit)
       THEN /\ ret' = [op |-> "pearl_handshake", result |-> "error_validation"]
            /\ results' = <<>>
            /\ UNCHANGED pearls
       ELSE \E recent \in pearlsByThread(validSlugs(threadsArg, auth),
                                         IF limit = NoLimit THEN HandshakeLimit ELSE limit,
                                         auth) :
            IF Truthy(response) /\ Truthy(response_thread)
            THEN IF auth.isAnonymous
                 THEN /\ ret' = [op |-> "pearl_handshake", result |-> "error_auth_required"]
                      /\ results' = <<>>
                      /\ UNCHANGED pearls
                 ELSE /\ createPearl(response_thread, auth, "pearl_handshake")
                      /\ results' = IF createPearlResult(response_thread, auth) = "success"
                                 THEN recent ELSE <<>>
            ELSE /\ ret' = [op |-> "pearl_handshake", result |-> "no_response"]
                 /\ results' = recent
                 /\ UNCHANGED pearls
    /\ UNCHANGED <<threads, threadAccess, probe, correction, oauthVars, identityVars>>

\* a lookup of the correction pearl that accepts any id
correctionMissing_ignored(correctionId) ==
    FALSE

\* "if (input.correctionId) { ... if (!correctionPearl) throw"
correctionMissing(correctionId) ==
    correctionId # NoPearl /\ getPearlById(correctionId) = {}

\* "Update the correction pearl to point to the original"
linkCorrection(table, pearlId, correctionId) ==
    {IF p.id = correctionId /\ correctionId # NoPearl
     THEN [p EXCEPT !.parentPearl = pearlId] ELSE p : p \in table}

\* an update that flips the status of the pearl
markCorrected_toggle(table, pearlId, auth) ==
    {IF p.id = pearlId
     THEN [p EXCEPT !.status = IF p.status = "active" THEN "corrected" ELSE "active",
                    !.metadata = [correctedBy |-> auth.userId]]
     ELSE p : p \in table}

\* "Mark the original pearl as corrected"
markCorrected(table, pearlId, auth) ==
    {IF p.id = pearlId
     THEN [p EXCEPT !.status = "corrected",
                    !.metadata = [correctedBy |-> auth.userId]]
     ELSE p : p \in table}

\* correctPearl: what the call raises before it writes, or success
correctPearlResult(pearlId, correctionId, auth) ==
    LET found == getPearlById(pearlId)
    IN  IF found = {} THEN "error_pearl_not_found"
        ELSE IF ~hasAccess((CHOOSE p \in found : TRUE).threadId, auth)
        THEN "error_no_write_access"
        ELSE IF correctionMissing(correctionId)
        THEN "error_correction_not_found"
        ELSE "success"

\* mcp/tools/pearl-correct.ts handlePearlCorrect -> correctPearl; the two
\* updates are separate statements, and the second may throw after the first
\* was applied
HandlePearlCorrect(auth, pearl_id, correction_id) ==
    LET reply(result) == [op |-> "pearl_correct", result |-> result]
    IN
    /\ IF rejectAnonymous(auth)
       THEN /\ ret' = reply("error_auth_required")
            /\ UNCHANGED pearls
       ELSE LET result == correctPearlResult(pearl_id, correction_id, auth)
            IN  IF result # "success"
                THEN /\ ret' = reply(result)
                     /\ UNCHANGED pearls
                ELSE \E dbOk \in BOOLEAN :
                        IF dbOk
                        THEN /\ pearls' = markCorrected(
                                    linkCorrection(pearls, pearl_id, correction_id),
                                    pearl_id, auth)
                             /\ ret' = reply("success")
                        ELSE /\ pearls' = linkCorrection(pearls, pearl_id, correction_id)
                             /\ ret' = reply("error_store")
    /\ results' = <<>>
    /\ UNCHANGED <<threads, threadAccess, probe, correction, oauthVars, identityVars>>

----------------------------------------------------------------------------
(* mcp/tools/index.ts, mcp/server.ts, routes/mcp.ts *)

\* the arguments of a tool call that carries none
NoArgs ==
    [thread |-> Null, limit |-> NoLimit, before |-> NoCursor, threads |-> NullList,
     response |-> Null, response_thread |-> Null, slug |-> Null, isPublic |-> FALSE,
     grant_access |-> {}, pearl_id |-> NoPearl, correction_id |-> NoPearl]

\* "default: throw new Error(`Unknown tool: ${name}`)": no handler is called
unknownTool(name) ==
    /\ ret' = [op |-> name, result |-> "error_unknown_tool"]
    /\ results' = <<>>
    /\ UNCHANGED <<threads, threadAccess, probe, pearls, correction, oauthVars,
                   identityVars>>

\* handleToolCall: the switch over the tool name
handleToolCall(name, args, auth) ==
    CASE name = "pearl_create" -> HandlePearlCreate(auth, args.thread)
      [] name = "pearl_search" -> HandlePearlSearch(auth, args.thread, args.limit)
      [] name = "pearl_recent" ->
            HandlePearlRecent(auth, args.thread, args.limit, args.before)
      [] name = "pearl_handshake" ->
            HandlePearlHandshake(auth, args.threads, args.limit, args.response,
                                 args.response_thread)
      [] name = "thread_list" -> HandleThreadList(auth)
      [] name = "thread_create" ->
            HandleThreadCreate(auth, args.slug, args.isPublic, args.grant_access)
      [] OTHER -> unknownTool(name)

\* the result of a handler stands for a thrown error
thrown(r) ==
    r.op # "thread_list" /\ r.result \notin {"success", "no_response"}

NoRequest == [tool |-> "none", status |-> 0, isError |-> FALSE, error |-> FALSE,
              message |-> ""]

\* a catch that lets the error pass to the transport
callToolCatch_rethrow(name, r) ==
    [tool |-> name, status |-> 500, isError |-> FALSE, error |-> FALSE,
     message |-> r.result]

\* the catch of the CallToolRequestSchema handler: the text is
\* JSON.stringify({ error: true, message }) and isError is true
callToolCatch(name, r) ==
    [tool |-> name, status |-> 200, isError |-> TRUE, error |-> TRUE,
     message |-> r.result]

\* PearlsMcpServer: the CallToolRequestSchema handler
CallTool(name, args, auth) ==
    /\ handleToolCall(name, args, auth)
    /\ res' = IF thrown(ret') THEN callToolCatch(name, ret')
              ELSE [tool |-> name, status |-> 200, isError |-> FALSE,
                    error |-> FALSE, message |-> ""]

\* the tools the route asks an authenticated caller for
writeTools == {"pearl_create", "pearl_handshake", "thread_create"}

\* sendOAuthRequired: 401 with a JSON-RPC error, the server is not called
sendOAuthRequired(name) ==
    [tool |-> name, status |-> 401, isError |-> FALSE, error |-> FALSE,
     message |-> "Authentication required. Please complete OAuth authorization."]

\* router.post('/mcp') with method tools/call; the source holds the route
\* twice, with (gate) and without the test for write tools
McpPost(gate, name, args, auth) ==
    IF gate /\ auth.isAnonymous /\ name \in writeTools
    THEN /\ res' = sendOAuthRequired(name)
         /\ UNCHANGED <<accessVars, results, oauthVars, identityVars>>
    ELSE CallTool(name, args, auth)

----------------------------------------------------------------------------
(* services/workos.ts *)

resolveUserRoles(userId) ==
    {"authenticated"}
        \cup (IF userId \in adminUserIds THEN {"admin"} ELSE {})
        \cup (IF userId \in auroraMemberIds THEN {"aurora:member"} ELSE {})

----------------------------------------------------------------------------
(* routes/oauth.ts *)

\* expiry of a pending record (10 * 60 * 1000 ms) and of a code
\* (5 * 60 * 1000 ms), in units of five minutes
PendingTTL == 2
CodeTTL == 1
\* NOW() + INTERVAL '30 days', scaled to end within the time the model covers
RefreshTTL == 3

CLAUDE_AI_CLIENT_ID == "claude_ai_pearls"
CLAUDE_AI_CLIENT_SECRET == "4ad884be"

\* the static entry of registeredClients
registeredClients ==
    [c \in {CLAUDE_AI_CLIENT_ID} |->
        [clientId |-> CLAUDE_AI_CLIENT_ID, clientSecret |-> CLAUDE_AI_CLIENT_SECRET]]

\* crypto.randomBytes(32).toString('hex'): the n-th value drawn; values never
\* repeat and never begin with "pending_"
RandHex(n) == "r" \o ToString(n)

\* crypto.createHash('sha256').update(v).digest('base64url'): injective on
\* the inputs of the model and never equal to its input
Sha256Base64url(v) == "sha256(" \o v \o ")"

\* crypto.createHash('sha256').update(v).digest('hex'): the same digest in
\* another encoding
Sha256Hex(v) == "sha256hex(" \o v \o ")"

PendingKey(state) == "pending_" \o state

\* how many of the values drawn were correlation values and codes
KeysDrawn == nextRand - 1 - tokenDraws

\* Map.prototype.get / set / delete
MapHas(m, k) == k \in DOMAIN m
MapSet(m, k, v) == [x \in (DOMAIN m) \cup {k} |-> IF x = k THEN v ELSE m[x]]
MapDelete(m, k) == [x \in (DOMAIN m) \ {k} |-> m[x]]

\* the shapes of the bodies the routes send
ErrorDescription == "json{error,error_description}"
ErrorOnly == "json{error}"
PlainText == "text"
Redirect == "redirect"
TokenBody == "json{access_token,...}"

NoResponse ==
    [op |-> "none", key |-> Null, body |-> "none", status |-> 0, error |-> Null]

\* GET /authorize
Authorize(response_type, client_id, redirect_uri, state, code_challenge, code_challenge_method) ==
    /\ IF response_type # "code"
       THEN /\ resp' = [op |-> "authorize", key |-> Null, body |-> ErrorDescription,
                        status |-> 400, error |-> "unsupported_response_type"]
            /\ UNCHANGED <<authorizationCodes, nextRand>>
       ELSE IF ~Truthy(client_id) \/ ~Truthy(redirect_uri)
       THEN /\ resp' = [op |-> "authorize", key |-> Null, body |-> ErrorDescription,
                        status |-> 400, error |-> "invalid_request"]
            /\ UNCHANGED <<authorizationCodes, nextRand>>
       ELSE /\ KeysDrawn < MaxRand
            /\ LET oauthState == RandHex(nextRand)
               IN  /\ authorizationCodes' = MapSet(authorizationCodes,
                        PendingKey(oauthState),
                        [clientId |-> client_id,
                         redirectUri |-> redirect_uri,
                         state |-> IF Truthy(state) THEN state ELSE "",
                         codeChallenge |-> code_challenge,
                         codeChallengeMethod |->
                            IF Truthy(code_challenge_method)
                            THEN code_challenge_method ELSE "plain",
                         userId |-> "",
                         email |-> "",
                         expiresAt |-> now + PendingTTL])
                   /\ resp' = [op |-> "authorize", key |-> oauthState, body |-> Redirect,
                               status |-> 302, error |-> Null]
            /\ nextRand' = nextRand + 1
    /\ minted' = NoAccessToken
    /\ UNCHANGED <<refreshTokens, codesIssued, tokensIssued, now, tokenDraws,
                   accessVars, requests, identityVars, toolVars>>

\* the pending record left in the map
deletePending_kept(pendingKey) ==
    authorizationCodes

\* "authorizationCodes.delete(pendingKey)"
deletePending(pendingKey) ==
    MapDelete(authorizationCodes, pendingKey)

\* GET /oauth/callback; user is the result of authenticateWithCode
\* (Null when the provider call throws)
Callback(code, state, user) ==
    /\ IF ~Truthy(code) \/ ~Truthy(state)
       THEN /\ resp' = [op |-> "callback", key |-> state, body |-> PlainText,
                        status |-> 400, error |-> "Missing code or state"]
            /\ UNCHANGED <<authorizationCodes, codesIssued, nextRand>>
       ELSE LET pendingKey == PendingKey(state)
            IN  IF ~MapHas(authorizationCodes, pendingKey)
                THEN /\ resp' = [op |-> "callback", key |-> state, body |-> PlainText,
                                 status |-> 400, error |-> "Invalid or expired state"]
                     /\ UNCHANGED <<authorizationCodes, codesIssued, nextRand>>
                ELSE LET pending == authorizationCodes[pendingKey]
                         deleted == deletePending(pendingKey)
                     IN  IF user = Null
                         THEN /\ authorizationCodes' = deleted
                              /\ resp' = [op |-> "callback", key |-> state, body |-> PlainText,
                                          status |-> 500,
                                          error |-> "Authentication failed"]
                              /\ UNCHANGED <<codesIssued, nextRand>>
                         ELSE /\ KeysDrawn < MaxRand
                              /\ LET authCode == RandHex(nextRand)
                                 IN  /\ authorizationCodes' = MapSet(deleted, authCode,
                                          [clientId |-> pending.clientId,
                                           userId |-> user,
                                           email |-> "mail:" \o user,
                                           redirectUri |-> pending.redirectUri,
                                           codeChallenge |-> pending.codeChallenge,
                                           codeChallengeMethod |->
                                               pending.codeChallengeMethod,
                                           expiresAt |-> now + CodeTTL])
                                     /\ codesIssued' = codesIssued \cup {authCode}
                                     /\ resp' = [op |-> "callback", key |-> state,
                                                 body |-> Redirect,
                                                 status |-> 302, error |-> Null]
                              /\ nextRand' = nextRand + 1
    /\ minted' = NoAccessToken
    /\ UNCHANGED <<refreshTokens, tokensIssued, now, tokenDraws, accessVars, requests,
                   identityVars, toolVars>>

\* a recomputation that ignores the registered method
calculatedChallenge_plainOnly(codeChallengeMethod, code_verifier) ==
    code_verifier

\* the challenge recomputed from the verifier
calculatedChallenge(codeChallengeMethod, code_verifier) ==
    IF codeChallengeMethod = "S256"
    THEN Sha256Base64url(code_verifier)
    ELSE code_verifier

\* a test that honours a record whatever its expiry
codeUnknownOrExpired_noExpiry(code) ==
    ~MapHas(authorizationCodes, code)

\* the code is not in the map, or its expiry has passed
codeUnknownOrExpired(code) ==
    \/ ~MapHas(authorizationCodes, code)
    \/ authorizationCodes[code].expiresAt < now

\* the used code left in the map
deleteUsedCode_kept(code) ==
    authorizationCodes

\* "Delete used code"
deleteUsedCode(code) ==
    MapDelete(authorizationCodes, code)

\* the client-credentials test at the head of POST /token
clientRejected(client_id, client_secret) ==
    /\ Truthy(client_id) /\ Truthy(client_secret)
    /\ \/ ~MapHas(registeredClients, client_id)
       \/ registeredClients[client_id].clientSecret # client_secret

\* POST /token with grant_type = authorization_code; dbOk is false when the
\* refresh_tokens store throws
TokenAuthorizationCode(code, code_verifier, client_id, client_secret) ==
    LET reply(status, error, body) ==
            [op |-> "token", key |-> code, body |-> body,
             status |-> status, error |-> error]
    IN
    /\ IF clientRejected(client_id, client_secret)
       THEN /\ resp' = reply(401, "invalid_client", ErrorDescription)
            /\ UNCHANGED <<authorizationCodes, refreshTokens, tokensIssued, nextRand,
                            tokenDraws>>
       ELSE IF ~Truthy(code)
       THEN /\ resp' = reply(400, "invalid_request", ErrorDescription)
            /\ UNCHANGED <<authorizationCodes, refreshTokens, tokensIssued, nextRand,
                            tokenDraws>>
       ELSE IF codeUnknownOrExpired(code)
       THEN /\ authorizationCodes' = MapDelete(authorizationCodes, code)
            /\ resp' = reply(400, "invalid_grant: Invalid or expired authorization code",
                             ErrorDescription)
            /\ UNCHANGED <<refreshTokens, tokensIssued, nextRand, tokenDraws>>
       ELSE LET authData == authorizationCodes[code]
            IN  IF /\ Truthy(authData.codeChallenge) /\ Truthy(code_verifier)
                   /\ calculatedChallenge(authData.codeChallengeMethod, code_verifier)
                        # authData.codeChallenge
                THEN /\ resp' = reply(400, "invalid_grant: Invalid code_verifier", ErrorDescription)
                     /\ UNCHANGED <<authorizationCodes, refreshTokens, tokensIssued,
                                    nextRand, tokenDraws>>
                ELSE /\ tokenDraws < MaxTokens
                     /\ authorizationCodes' = deleteUsedCode(code)
                     /\ nextRand' = nextRand + 1
                     /\ tokenDraws' = tokenDraws + 1
                     /\ LET roles == resolveUserRoles(authData.userId)
                            refreshTokenValue == RandHex(nextRand)
                        IN  \E dbOk \in BOOLEAN :
                            IF dbOk
                            THEN /\ refreshTokens' = refreshTokens \cup
                                        {[token_hash |-> Sha256Hex(refreshTokenValue),
                                          user_id |-> authData.userId,
                                          email |-> authData.email,
                                          expires_at |-> now + RefreshTTL]}
                                 /\ tokensIssued' = tokensIssued \cup
                                        {[code |-> code,
                                          access_token |->
                                              [userId |-> authData.userId,
                                               email |-> authData.email,
                                               roles |-> roles],
                                          refresh_token |-> refreshTokenValue]}
                                 /\ resp' = reply(200, Null, TokenBody)
                            ELSE /\ resp' = reply(500, "server_error", ErrorOnly)
                                 /\ UNCHANGED <<refreshTokens, tokensIssued>>
    /\ minted' = IF resp'.status = 200
                 THEN [userId |-> authorizationCodes[code].userId,
                       email |-> authorizationCodes[code].email,
                       roles |-> resolveUserRoles(authorizationCodes[code].userId)]
                 ELSE NoAccessToken
    /\ UNCHANGED <<codesIssued, now, accessVars, requests, identityVars, toolVars>>

\* a lookup that ignores the expiry of the row
refreshRows_noExpiry(refresh_token) ==
    {r \in refreshTokens : r.token_hash = Sha256Hex(refresh_token)}

\* "SELECT user_id, email FROM refresh_tokens WHERE token_hash = $1 AND
\* expires_at > NOW()"
refreshRows(refresh_token) ==
    {r \in refreshTokens :
        r.token_hash = Sha256Hex(refresh_token) /\ r.expires_at > now}

\* POST /token with grant_type = refresh_token; dbOk is false when
\* pool.connect or the query throws
TokenRefresh(refresh_token, client_id, client_secret) ==
    LET reply(status, error, body) ==
            [op |-> "refresh", key |-> Null, body |-> body,
             status |-> status, error |-> error]
    IN
    /\ IF clientRejected(client_id, client_secret)
       THEN /\ resp' = reply(401, "invalid_client", ErrorDescription)
            /\ minted' = NoAccessToken
       ELSE IF ~Truthy(refresh_token)
       THEN /\ resp' = reply(400, "invalid_request", ErrorDescription)
            /\ minted' = NoAccessToken
       ELSE \E dbOk \in BOOLEAN :
            IF ~dbOk
            THEN /\ resp' = reply(500, "server_error", ErrorOnly)
                 /\ minted' = NoAccessToken
            ELSE IF refreshRows(refresh_token) = {}
            THEN /\ resp' = reply(400, "invalid_grant: Invalid or expired refresh token",
                                  ErrorDescription)
                 /\ minted' = NoAccessToken
            ELSE LET row == CHOOSE r \in refreshRows(refresh_token) : TRUE
                 IN  /\ minted' = [userId |-> row.user_id, email |-> row.email,
                                   roles |-> resolveUserRoles(row.user_id)]
                     /\ resp' = reply(200, Null, TokenBody)
    /\ UNCHANGED <<authorizationCodes, refreshTokens, codesIssued, tokensIssued, now,
                   nextRand, tokenDraws, accessVars, requests, identityVars, toolVars>>

\* POST /token with any other grant_type
TokenUnsupported(client_id, client_secret) ==
    LET reply(status, error) ==
            [op |-> "token_other", key |-> Null, body |-> ErrorDescription,
             status |-> status, error |-> error]
    IN
    /\ resp' = IF clientRejected(client_id, client_secret)
               THEN reply(401, "invalid_client")
               ELSE reply(400, "unsupported_grant_type")
    /\ minted' = NoAccessToken
    /\ UNCHANGED <<authorizationCodes, refreshTokens, codesIssued, tokensIssued, now,
                   nextRand, tokenDraws, accessVars, requests, identityVars, toolVars>>

(* The same handlers step by step: a handler runs without interruption up
   to an await, where other requests may run; requests holds each request
   with the await it is suspended at and the locals it carries over *)

NoLocals == [none |-> TRUE]

\* a request that was answered
answered(kind, key, hasCode, status, error) ==
    [kind |-> kind, key |-> key, hasCode |-> hasCode, pc |-> "done", saved |-> NoLocals,
     drawn |-> "", status |-> status, error |-> error]

\* a request suspended at an await
suspended(kind, key, pc, saved, drawn) ==
    [kind |-> kind, key |-> key, hasCode |-> TRUE, pc |-> pc, saved |-> saved,
     drawn |-> drawn, status |-> 0, error |-> Null]

callbackReply(state, status, error, body) ==
    [op |-> "callback", key |-> state, body |-> body, status |-> status, error |-> error]

tokenReply(code, status, error, body) ==
    [op |-> "token", key |-> code, body |-> body, status |-> status, error |-> error]

\* GET /oauth/callback from its start to "await authenticateWithCode"
CallbackBegin(code, state) ==
    /\ Len(requests) < MaxRequests
    /\ IF ~Truthy(code) \/ ~Truthy(state)
       THEN /\ resp' = callbackReply(state, 400, "Missing code or state", PlainText)
            /\ requests' = Append(requests,
                    answered("callback", state, Truthy(code), 400, "Missing code or state"))
            /\ UNCHANGED authorizationCodes
       ELSE LET pendingKey == PendingKey(state)
            IN  IF ~MapHas(authorizationCodes, pendingKey)
                THEN /\ resp' = callbackReply(state, 400, "Invalid or expired state",
                                              PlainText)
                     /\ requests' = Append(requests,
                            answered("callback", state, TRUE, 400,
                                     "Invalid or expired state"))
                     /\ UNCHANGED authorizationCodes
                ELSE /\ authorizationCodes' = deletePending(pendingKey)
                     /\ requests' = Append(requests,
                            suspended("callback", state, "provider",
                                      authorizationCodes[pendingKey], ""))
                     /\ UNCHANGED resp
    /\ minted' = NoAccessToken
    /\ UNCHANGED <<refreshTokens, codesIssued, tokensIssued, now, nextRand, tokenDraws,
                   accessVars, identityVars, toolVars>>

\* GET /oauth/callback from the return of authenticateWithCode to its end;
\* user is Null when the provider call throws
CallbackProvider(i, user) ==
    /\ i \in 1..Len(requests)
    /\ requests[i].kind = "callback" /\ requests[i].pc = "provider"
    /\ LET state == requests[i].key
           pending == requests[i].saved
       IN  IF user = Null
           THEN /\ resp' = callbackReply(state, 500, "Authentication failed", PlainText)
                /\ requests' = [requests EXCEPT ![i] =
                        answered("callback", state, TRUE, 500, "Authentication failed")]
                /\ UNCHANGED <<authorizationCodes, codesIssued, nextRand>>
           ELSE /\ KeysDrawn < MaxRand
                /\ LET authCode == RandHex(nextRand)
                   IN  /\ authorizationCodes' = MapSet(authorizationCodes, authCode,
                            [clientId |-> pending.clientId,
                             userId |-> user,
                             email |-> "mail:" \o user,
                             redirectUri |-> pending.redirectUri,
                             codeChallenge |-> pending.codeChallenge,
                             codeChallengeMethod |-> pending.codeChallengeMethod,
                             expiresAt |-> now + CodeTTL])
                       /\ codesIssued' = codesIssued \cup {authCode}
                       /\ resp' = callbackReply(state, 302, Null, Redirect)
                       /\ requests' = [requests EXCEPT ![i] =
                                [answered("callback", state, TRUE, 302, Null)
                                    EXCEPT !.drawn = authCode]]
                /\ nextRand' = nextRand + 1
    /\ minted' = NoAccessToken
    /\ UNCHANGED <<refreshTokens, tokensIssued, now, tokenDraws, accessVars, identityVars,
                   toolVars>>

\* POST /token with grant_type = authorization_code from its start to
\* "await pool.connect()"
TokenBegin(code, code_verifier, client_id, client_secret) ==
    LET reject(status, error) ==
            /\ resp' = tokenReply(code, status, error, ErrorDescription)
            /\ requests' = Append(requests,
                    answered("token", code, Truthy(code), status, error))
    IN
    /\ Len(requests) < MaxRequests
    /\ IF clientRejected(client_id, client_secret)
       THEN /\ reject(401, "invalid_client")
            /\ UNCHANGED <<authorizationCodes, nextRand, tokenDraws>>
       ELSE IF ~Truthy(code)
       THEN /\ reject(400, "invalid_request")
            /\ UNCHANGED <<authorizationCodes, nextRand, tokenDraws>>
       ELSE IF codeUnknownOrExpired(code)
       THEN /\ authorizationCodes' = MapDelete(authorizationCodes, code)
            /\ reject(400, "invalid_grant: Invalid or expired authorization code")
            /\ UNCHANGED <<nextRand, tokenDraws>>
       ELSE LET authData == authorizationCodes[code]
            IN  IF /\ Truthy(authData.codeChallenge) /\ Truthy(code_verifier)
                   /\ calculatedChallenge(authData.codeChallengeMethod, code_verifier)
                        # authData.codeChallenge
                THEN /\ reject(400, "invalid_grant: Invalid code_verifier")
                     /\ UNCHANGED <<authorizationCodes, nextRand, tokenDraws>>
                ELSE /\ tokenDraws < MaxTokens
                     /\ authorizationCodes' = deleteUsedCode(code)
                     /\ nextRand' = nextRand + 1
                     /\ tokenDraws' = tokenDraws + 1
                     /\ requests' = Append(requests,
                            suspended("token", code, "connect", authData,
                                      RandHex(nextRand)))
                     /\ UNCHANGED resp
    /\ minted' = NoAccessToken
    /\ UNCHANGED <<refreshTokens, codesIssued, tokensIssued, now, accessVars,
                   identityVars, toolVars>>

\* POST /token from the return of pool.connect() to the INSERT sent to the
\* store; dbOk is false when pool.connect or CREATE TABLE throws
TokenConnected(i) ==
    /\ i \in 1..Len(requests)
    /\ requests[i].kind = "token" /\ requests[i].pc = "connect"
    /\ \E dbOk \in BOOLEAN :
        IF dbOk
        THEN /\ requests' = [requests EXCEPT ![i].pc = "insert"]
             /\ UNCHANGED resp
        ELSE /\ requests' = [requests EXCEPT ![i] =
                    answered("token", requests[i].key, TRUE, 500, "server_error")]
             /\ resp' = tokenReply(requests[i].key, 500, "server_error", ErrorOnly)
    /\ minted' = NoAccessToken
    /\ UNCHANGED <<authorizationCodes, refreshTokens, codesIssued, tokensIssued, now,
                   nextRand, tokenDraws, accessVars, identityVars, toolVars>>

\* POST /token from the return of the INSERT to its end; dbOk is false when
\* the INSERT throws
TokenInserted(i) ==
    /\ i \in 1..Len(requests)
    /\ requests[i].kind = "token" /\ requests[i].pc = "insert"
    /\ LET code == requests[i].key
           authData == requests[i].saved
           refreshTokenValue == requests[i].drawn
           accessToken == [userId |-> authData.userId, email |-> authData.email,
                           roles |-> resolveUserRoles(authData.userId)]
       IN  \E dbOk \in BOOLEAN :
           IF dbOk
           THEN /\ refreshTokens' = refreshTokens \cup
                        {[token_hash |-> Sha256Hex(refreshTokenValue),
                          user_id |-> authData.userId,
                          email |-> authData.email,
                          expires_at |-> now + RefreshTTL]}
                /\ tokensIssued' = tokensIssued \cup
                        {[code |-> code, access_token |-> accessToken,
                          refresh_token |-> refreshTokenValue]}
                /\ resp' = tokenReply(code, 200, Null, TokenBody)
                /\ minted' = accessToken
                /\ requests' = [requests EXCEPT ![i] =
                        answered("token", code, TRUE, 200, Null)]
           ELSE /\ resp' = tokenReply(code, 500, "server_error", ErrorOnly)
                /\ minted' = NoAccessToken
                /\ requests' = [requests EXCEPT ![i] =
                        answered("token", code, TRUE, 500, "server_error")]
                /\ UNCHANGED <<refreshTokens, tokensIssued>>
    /\ UNCHANGED <<authorizationCodes, codesIssued, now, nextRand, tokenDraws,
                   accessVars, identityVars, toolVars>>

\* time passes
Tick ==
    /\ now < MaxTime
    /\ now' = now + 1
    /\ UNCHANGED <<authorizationCodes, refreshTokens, codesIssued, tokensIssued,
                   nextRand, tokenDraws, resp, minted, accessVars, requests, identityVars,
                   toolVars>>


----------------------------------------------------------------------------
(* lib/jwt.ts, services/workos.ts, middleware/auth.ts, scripts/generate-api-key.ts *)

JWT_SECRET == "secret"

\* a bearer credential is a service key ("pearl_" + random), a JSON web token
\* (its signing key, whether it is past its exp claim, and its payload) or
\* a string that is neither
IsJwt(token) == token.kind = "jwt"
startsWithPearl(token) == token.kind = "pearl"

\* scheme?.toLowerCase()
toLowerCase(scheme) == IF scheme = "Bearer" THEN "bearer" ELSE scheme

\* getBearerToken: no token when the header is absent, has another scheme
\* or has no token
getBearerToken(authHeader) ==
    IF authHeader = NoHeader THEN NoToken
    ELSE IF toLowerCase(authHeader.scheme) # "bearer" \/ authHeader.token = NoToken
    THEN NoToken
    ELSE authHeader.token

\* a verification that only decodes
verifyTokenOk_decodeOnly(token) ==
    IsJwt(token)

\* verifyToken: jwt.verify succeeds on a token signed with JWT_SECRET that
\* has not expired (it throws otherwise)
verifyTokenOk(token) ==
    IsJwt(token) /\ token.key = JWT_SECRET /\ ~token.expired

\* verifyWorkOSToken: jwt.decode without verification; the result is the
\* set holding the user, empty (null) when the token does not decode or has
\* no sub claim
verifyWorkOSToken(accessToken) ==
    IF ~IsJwt(accessToken) THEN {}
    ELSE IF ~Truthy(accessToken.payload.sub) THEN {}
    ELSE {[userId |-> accessToken.payload.sub,
           email |-> IF Truthy(accessToken.payload.email)
                     THEN accessToken.payload.email ELSE ""]}

\* crypto.createHash('sha256').update(token).digest('hex') of a service key
keyHashOf(token) == "sha256(" \o token.id \o ")"

\* the AuthContext verifyApiKey builds from the matching row
apiKeyContext(row) ==
    [userId |-> row.user_id,
     email |-> Null,
     roles |-> IF row.roles = NullList THEN {"authenticated"} ELSE row.roles,
     isAnonymous |-> FALSE]

\* the outcome of a block of code: it returns a value (a set holding the
\* AuthContext, empty for null) or it throws
Returned(value) == [threw |-> FALSE, value |-> value]
Thrown == [threw |-> TRUE, value |-> {}]

\* a selection that ignores the disabled column
enabledRows_anyStatus(token) ==
    {r \in apiKeys : r.key_hash = keyHashOf(token)}

\* the rows "WHERE key_hash = $1 AND disabled = false" selects
enabledRows(token) ==
    {r \in apiKeys : r.key_hash = keyHashOf(token) /\ ~r.disabled}

\* the try block of verifyApiKey; db tells which statement of the store
\* fails, if any: pool.connect, the SELECT or the UPDATE of last_used_at
verifyApiKeyTry(token, db) ==
    IF db = "connect_fails" \/ db = "select_fails" THEN Thrown
    ELSE LET rows == enabledRows(token)
         IN  IF rows = {} THEN Returned({})
             ELSE IF db = "update_fails" THEN Thrown
             ELSE Returned({apiKeyContext(CHOOSE r \in rows : TRUE)})

\* a handler that lets the exception escape
verifyApiKeyCatch_rethrow(outcome) ==
    outcome

\* the catch block of verifyApiKey: whatever was thrown becomes null
verifyApiKeyCatch(outcome) ==
    IF outcome.threw THEN Returned({}) ELSE outcome

\* verifyApiKey: the outcome holds the AuthContext, or null (the empty set)
\* when no enabled row matches or the store throws
verifyApiKey(token, db) ==
    IF ~startsWithPearl(token) THEN Returned({})
    ELSE verifyApiKeyCatch(verifyApiKeyTry(token, db))

\* a verified-token identity that trusts the roles embedded in the token
tokenContext_snapshotRoles(payload) ==
    [userId |-> payload.userId,
     email |-> IF Truthy(payload.email) THEN payload.email ELSE Null,
     roles |-> payload.roles,
     isAnonymous |-> FALSE]

\* the AuthContext built from a verified self-issued token
tokenContext(payload) ==
    [userId |-> payload.userId,
     email |-> IF Truthy(payload.email) THEN payload.email ELSE Null,
     roles |-> resolveUserRoles(payload.userId),
     isAnonymous |-> FALSE]

\* extractAuthContext: the outcome holds the AuthContext returned
extractAuthContext(authHeader, db) ==
    LET token == getBearerToken(authHeader)
        apiKeyOutcome == verifyApiKey(token, db)
        apiKeyAuth == apiKeyOutcome.value
    IN  IF token = NoToken THEN Returned({AnonymousContext})
        ELSE IF startsWithPearl(token) /\ apiKeyOutcome.threw THEN Thrown
        ELSE IF startsWithPearl(token)
        THEN IF apiKeyAuth # {} THEN Returned(apiKeyAuth)
             ELSE Returned({AnonymousContext})
        ELSE IF verifyTokenOk(token) /\ Truthy(token.payload.userId)
        THEN Returned({tokenContext(token.payload)})
        ELSE LET found == verifyWorkOSToken(token)
             IN  IF found = {} THEN Returned({AnonymousContext})
                 ELSE LET user == CHOOSE u \in found : TRUE
                      IN  Returned({[userId |-> user.userId,
                                     email |-> user.email,
                                     roles |-> resolveUserRoles(user.userId),
                                     isAnonymous |-> FALSE]})

\* scripts/generate-api-key.ts generateKey: userId is argv[3], roles argv[4]
GenerateKey(userId, roles) ==
    /\ Cardinality(apiKeys) < MaxKeys
    /\ LET rawKey == [kind |-> "pearl", id |-> RandHex(Cardinality(apiKeys) + 1)]
       IN  apiKeys' = apiKeys \cup
                {[key_hash |-> keyHashOf(rawKey),
                  user_id |-> IF Truthy(userId) THEN userId ELSE Null,
                  roles |-> IF roles = NullList THEN {"authenticated"} ELSE roles,
                  disabled |-> FALSE]}
    /\ UNCHANGED <<identity, accessVars, oauthVars, toolVars>>

\* an operator sets the disabled column of a key
DisableKey(key_hash) ==
    /\ \E r \in apiKeys : r.key_hash = key_hash /\ ~r.disabled
    /\ apiKeys' = {IF r.key_hash = key_hash THEN [r EXCEPT !.disabled = TRUE] ELSE r :
                    r \in apiKeys}
    /\ UNCHANGED <<identity, accessVars, oauthVars, toolVars>>

\* authMiddleware: a request is resolved to its identity; when the call
\* raises, req.auth is not assigned
ExtractAuthContext(authHeader, db) ==
    /\ LET outcome == extractAuthContext(authHeader, db)
       IN  identity' = [credential |-> authHeader,
                        db |-> db,
                        matched |-> IF startsWithPearl(getBearerToken(authHeader))
                                    THEN {r \in apiKeys :
                                            /\ r.key_hash =
                                                keyHashOf(getBearerToken(authHeader))
                                            /\ ~r.disabled}
                                    ELSE {},
                        raised |-> outcome.threw,
                        auth |-> IF outcome.threw THEN identity.auth
                                 ELSE CHOOSE a \in outcome.value : TRUE]
    /\ UNCHANGED <<apiKeys, accessVars, oauthVars, toolVars>>

----------------------------------------------------------------------------
\* the tables are empty, no request was served
InitStores ==
    /\ threads = {}
    /\ threadAccess = {}
    /\ ret = [op |-> "none", result |-> Null]
    /\ pearls = {}
    /\ authorizationCodes = <<>>
    /\ refreshTokens = {}
    /\ codesIssued = {}
    /\ tokensIssued = {}
    /\ now = 0
    /\ nextRand = 1
    /\ tokenDraws = 0
    /\ resp = NoResponse
    /\ apiKeys = {}
    /\ identity = [credential |-> NoHeader, db |-> "none", matched |-> {},
                   raised |-> FALSE, auth |-> AnonymousContext]
    /\ minted = NoAccessToken
    /\ requests = <<>>
    /\ results = <<>>
    /\ res = NoRequest

Init ==
    /\ InitStores
    /\ probe \in [auth : CallerContexts, threadId : ThreadIds, permission : Permission]
    /\ correction = [pearlId |-> UnknownPearl, correctionId |-> NoPearl]

\* the callers of thread_create: an administrator and the strongest caller
\* without the admin role
Creators ==
    {c \in CallerContexts :
        c.roles \in {{"authenticated", "admin"}, {"authenticated", "aurora:member"}}}

ThreadCreateStep ==
    /\ \E auth \in Creators, slug \in Slugs, isPublic \in BOOLEAN,
          grant_access \in GrantLists :
            HandleThreadCreate(auth, slug, isPublic, grant_access)
    /\ UNCHANGED res

ThreadListStep ==
    /\ HandleThreadList(probe.auth)
    /\ UNCHANGED res

Next ==
    \/ ThreadCreateStep
    \/ CheckThreadAccess
    \/ ThreadListStep

Spec == Init /\ [][Next]_vars

(* Inputs of the OAuth routes *)

Verifiers == {"v1", Sha256Base64url("v1")}
\* code_challenge and code_challenge_method of an authorization request:
\* no challenge, a challenge without method (plain), an S256 challenge
Challenges == {<<Null, Null>>, <<"v1", Null>>, <<Sha256Base64url("v1"), "S256">>}
OAuthUsers == {"u_admin", "u_plain"}
\* the correlation values a callback can carry: those with a pending record
\* and one without (never drawn, or already consumed)
KnownRand ==
    {r \in {RandHex(n) : n \in 1..(nextRand - 1)} :
        MapHas(authorizationCodes, PendingKey(r))} \cup {"unknown"}
\* the codes a client can present: the keys of the map (codes and pending
\* records), codes issued earlier, and a value that was never a key
PresentableCodes == (DOMAIN authorizationCodes) \cup codesIssued \cup {"unknown"}
ClientCredentials ==
    {<<Null, Null>>,
     <<CLAUDE_AI_CLIENT_ID, CLAUDE_AI_CLIENT_SECRET>>,
     <<CLAUDE_AI_CLIENT_ID, "wrong">>}

AuthorizeStep ==
    \E response_type \in {"code", "token"}, client_id \in {Null, CLAUDE_AI_CLIENT_ID},
       challenge \in Challenges :
        Authorize(response_type, client_id, "https://claude.ai/oauth/callback",
                  "st", challenge[1], challenge[2])

CallbackStep ==
    \E code \in {Null, "provider_code"}, state \in KnownRand,
       user \in OAuthUsers \cup {Null} :
        Callback(code, state, user)

TokenStep ==
    \E code \in PresentableCodes \cup {Null}, code_verifier \in Verifiers \cup {Null},
       cred \in ClientCredentials :
        TokenAuthorizationCode(code, code_verifier, cred[1], cred[2])

\* the refresh tokens a client can present: those sent in token responses,
\* a value that was never one, and none
PresentableRefreshTokens ==
    {i.refresh_token : i \in tokensIssued} \cup {"unknown", Null}

RefreshStep ==
    \E refresh_token \in PresentableRefreshTokens, cred \in ClientCredentials :
        TokenRefresh(refresh_token, cred[1], cred[2])

UnsupportedStep ==
    \E cred \in ClientCredentials : TokenUnsupported(cred[1], cred[2])

NextOAuth ==
    \/ AuthorizeStep
    \/ CallbackStep
    \/ TokenStep
    \/ UnsupportedStep
    \/ Tick

\* the ids mark-corrected can name: those rows can have and one of no row
PearlIds == (1..MaxPearls) \cup {UnknownPearl}

\* the slug of the thread the write path works on, and a slug of no thread
ContentSlug == "s1"
NoSlug == "s-none"

\* grants of interest to the write path
ContentGrants ==
    {[role |-> "anonymous", permission |-> "write"],
     [role |-> "authenticated", permission |-> "write"]}

ContentThreadCreateStep ==
    /\ \E auth \in CallerContexts, isPublic \in BOOLEAN,
          grant_access \in SUBSET ContentGrants :
            HandleThreadCreate(auth, ContentSlug, isPublic, grant_access)
    /\ UNCHANGED res

\* the callers that write pearls: the caller of the probe, an administrator
\* and a member
PearlCallers == {probe.auth} \cup Creators

PearlCreateStep ==
    /\ \E auth \in PearlCallers, thread \in {ContentSlug, NoSlug} :
            HandlePearlCreate(auth, thread)
    /\ UNCHANGED res

\* the handshake is called without a list of threads and without a limit
PearlHandshakeStep ==
    /\ \E auth \in PearlCallers, response \in {Null, "ack"},
          response_thread \in {ContentSlug, NoSlug, Null} :
            HandlePearlHandshake(auth, NullList, NoLimit, response, response_thread)
    /\ UNCHANGED res

PearlCorrectStep ==
    /\ HandlePearlCorrect(probe.auth, correction.pearlId, correction.correctionId)
    /\ UNCHANGED res

NextContent ==
    \/ ContentThreadCreateStep
    \/ PearlCreateStep
    \/ PearlHandshakeStep
    \/ PearlCorrectStep

\* the calls of the content service come from the caller of the probe, and
\* mark-corrected is called with the arguments drawn here
InitContent ==
    /\ InitStores
    /\ probe \in [auth : CallerContexts, threadId : {1}, permission : {"write"}]
    /\ correction \in [pearlId : PearlIds, correctionId : PearlIds \cup {NoPearl}]

SpecContent == InitContent /\ [][NextContent]_vars

(* Inputs of the tool calls *)

\* the two copies of the route differ for an anonymous call of a write tool only
GatesFor(name, auth) ==
    IF auth.isAnonymous /\ name \in writeTools THEN BOOLEAN ELSE {FALSE}

\* the threads an administrator sets up: private, public, readable by
\* members, writable by every authenticated caller
ThreadKinds ==
    {<<FALSE, {}>>, <<TRUE, {}>>,
     <<FALSE, {[role |-> "aurora:member", permission |-> "read"]}>>,
     <<FALSE, {[role |-> "authenticated", permission |-> "write"]}>>}

\* the administrator who sets up threads and writes pearls
AdminContext ==
    [userId |-> "u_plain", email |-> Null, roles |-> {"authenticated", "admin"},
     isAnonymous |-> FALSE]

\* the callers of the tools
ToolCallers ==
    {c \in CallerContexts :
        c.roles \in {{"anonymous"}, {"authenticated"}, {"authenticated", "aurora:member"},
                     {"authenticated", "admin"}}}

\* thread arguments: absent, the slugs, a slug of no thread
ThreadArgs == {Null, NoSlug} \cup Slugs

\* thread, limit and cursor of a list-recent call: limit and cursor absent
\* or given for every thread argument; a limit below the minimum or above
\* the maximum and a cursor that is no timestamp
RecentQueries ==
    {<<thread, q[1], q[2]>> :
        thread \in ThreadArgs,
        q \in {<<NoLimit, NoCursor>>, <<MaxLimit, NoCursor>>, <<MaxLimit, 2>>}}
    \cup {<<Null, 0, NoCursor>>, <<Null, MaxLimit + 1, NoCursor>>,
          <<Null, NoLimit, BadCursor>>}

\* thread and limit of a search
SearchQueries ==
    {<<thread, NoLimit>> : thread \in ThreadArgs}
    \cup {<<Null, MaxLimit>>, <<Null, 0>>}

\* only an administrator sets up every kind of thread
ToolThreadCreateStep ==
    \E auth \in {AdminContext, probe.auth}, slug \in Slugs :
        \E kind \in (IF "admin" \in auth.roles THEN ThreadKinds ELSE {<<TRUE, {}>>}),
           gate \in GatesFor("thread_create", auth) :
            McpPost(gate, "thread_create",
                    [NoArgs EXCEPT !.slug = slug, !.isPublic = kind[1],
                                   !.grant_access = kind[2]], auth)

ToolThreadListStep ==
    McpPost(FALSE, "thread_list", NoArgs, probe.auth)

ToolPearlCreateStep ==
    \E auth \in {AdminContext, probe.auth}, thread \in Slugs \cup {NoSlug} :
        \E gate \in GatesFor("pearl_create", auth) :
            McpPost(gate, "pearl_create", [NoArgs EXCEPT !.thread = thread], auth)

ToolPearlRecentStep ==
    \E query \in RecentQueries :
        McpPost(FALSE, "pearl_recent",
                [NoArgs EXCEPT !.thread = query[1], !.limit = query[2],
                               !.before = query[3]], probe.auth)

ToolPearlSearchStep ==
    \E query \in SearchQueries :
        McpPost(FALSE, "pearl_search",
                [NoArgs EXCEPT !.thread = query[1], !.limit = query[2]], probe.auth)

\* the lists of threads a handshake names, and its response with its thread
HandshakeThreads == {NullList, {}, {"s1", "s2", NoSlug}}
HandshakeResponses ==
    {<<Null, Null>>, <<"ack", Null>>, <<"ack", "s1">>, <<"ack", NoSlug>>}

\* list, limit, response and response thread of a handshake: the limit
\* absent for every list and response, and once given and once invalid
HandshakeQueries ==
    {<<threadsArg, NoLimit, r[1], r[2]>> :
        threadsArg \in HandshakeThreads, r \in HandshakeResponses}
    \cup {<<NullList, HandshakeMaxLimit, Null, Null>>, <<NullList, 0, "ack", "s1">>}

ToolPearlHandshakeStep ==
    \E query \in HandshakeQueries :
        \E gate \in GatesFor("pearl_handshake", probe.auth) :
            McpPost(gate, "pearl_handshake",
                    [NoArgs EXCEPT !.threads = query[1], !.limit = query[2],
                                   !.response = query[3],
                                   !.response_thread = query[4]], probe.auth)

\* names outside the switch: the tool of pearl-correct.ts and a name of no tool
ToolOtherStep ==
    \E name \in {"pearl_correct", "no_such_tool"} :
        McpPost(FALSE, name,
                [NoArgs EXCEPT !.pearl_id = correction.pearlId,
                               !.correction_id = correction.correctionId], probe.auth)

NextTools ==
    \/ ToolThreadCreateStep
    \/ ToolThreadListStep
    \/ ToolPearlCreateStep
    \/ ToolPearlRecentStep
    \/ ToolPearlSearchStep
    \/ ToolPearlHandshakeStep
    \/ ToolOtherStep

\* the read calls come from the caller of the probe
InitTools ==
    /\ InitStores
    /\ probe \in [auth : ToolCallers, threadId : {1}, permission : {"read"}]
    /\ correction = [pearlId |-> 1, correctionId |-> NoPearl]

SpecTools == InitTools /\ [][NextTools]_vars

(* Mark-corrected over several threads: an administrator sets up threads of
   every kind and writes pearls, and the caller of the probe marks one pearl
   corrected by another *)

NextCorrect ==
    \/ ToolThreadCreateStep
    \/ ToolPearlCreateStep
    \/ PearlCorrectStep

InitCorrect ==
    /\ InitStores
    /\ probe \in [auth : ToolCallers, threadId : {1}, permission : {"write"}]
    /\ correction \in [pearlId : 1..MaxPearls, correctionId : (1..MaxPearls) \cup {NoPearl}]

SpecCorrect == InitCorrect /\ [][NextCorrect]_vars

\* the thread service is not called under the specifications below
InitOAuth ==
    /\ Init
    /\ probe = [auth |-> AnonymousContext, threadId |-> 1, permission |-> "read"]

SpecOAuth == InitOAuth /\ [][NextOAuth]_vars

(* The refresh grant: clients that complete the authorization-code flow
   without a PKCE challenge and without a client secret, then present
   refresh tokens with every kind of client credentials *)

FlowAuthorizeStep ==
    Authorize("code", CLAUDE_AI_CLIENT_ID, "https://claude.ai/oauth/callback", "st",
              Null, Null)

FlowCallbackStep ==
    \E state \in KnownRand \ {"unknown"}, user \in OAuthUsers :
        Callback("provider_code", state, user)

FlowTokenStep ==
    \E code \in codesIssued : TokenAuthorizationCode(code, Null, Null, Null)

NextRefresh ==
    \/ FlowAuthorizeStep
    \/ FlowCallbackStep
    \/ FlowTokenStep
    \/ RefreshStep
    \/ Tick

SpecRefresh == InitOAuth /\ [][NextRefresh]_vars

(* Concurrent requests: callbacks and token exchanges interleave at their
   awaits; each carries a correlation value or a code seen before *)

\* the correlation values of the pending records and of earlier callbacks
StatesSeen ==
    {r \in {RandHex(n) : n \in 1..(nextRand - 1)} :
        MapHas(authorizationCodes, PendingKey(r))}
    \cup {requests[i].key : i \in {j \in 1..Len(requests) : requests[j].kind = "callback"}}

CallbackBeginStep ==
    \E code \in {Null, "provider_code"}, state \in StatesSeen : CallbackBegin(code, state)

CallbackProviderStep ==
    \E i \in 1..Len(requests), user \in {"u_plain", Null} : CallbackProvider(i, user)

TokenBeginStep ==
    \E code \in codesIssued : TokenBegin(code, Null, Null, Null)

TokenConnectedStep ==
    \E i \in 1..Len(requests) : TokenConnected(i)

TokenInsertedStep ==
    \E i \in 1..Len(requests) : TokenInserted(i)

NextConcurrent ==
    \/ FlowAuthorizeStep
    \/ CallbackBeginStep
    \/ CallbackProviderStep
    \/ TokenBeginStep
    \/ TokenConnectedStep
    \/ TokenInsertedStep

SpecConcurrent == InitOAuth /\ [][NextConcurrent]_vars



(* Inputs of the identity resolver *)

\* the role lists a key is generated with: default, one role, several
KeyRoleLists ==
    {NullList, {"anonymous"}, {"admin"}, {"authenticated", "aurora:member"}}

\* payloads of self-issued tokens (userId, email, roles snapshot) and of
\* third-party tokens (sub, email)
OwnPayloads ==
    {[userId |-> u, email |-> e, roles |-> rs, sub |-> Null] :
        u \in {"u_admin", "u_plain", ""}, e \in {Null, "mail"},
        rs \in {{"authenticated"}, {"authenticated", "admin"}}}
ProviderPayloads ==
    {[userId |-> Null, email |-> e, roles |-> NullList, sub |-> u] :
        u \in {"u_member", Null}, e \in {Null, "mail"}}

BearerTokens ==
    {[kind |-> "pearl", id |-> RandHex(n)] : n \in 1..(MaxKeys + 1)}
    \cup {[kind |-> "jwt", key |-> JWT_SECRET, expired |-> FALSE, payload |-> p] :
            p \in OwnPayloads}
    \cup {[kind |-> "jwt", key |-> JWT_SECRET, expired |-> TRUE, payload |-> p] :
            p \in {q \in OwnPayloads : q.userId = "u_admin" /\ q.email = Null}}
    \cup {[kind |-> "jwt", key |-> "rotated", expired |-> FALSE, payload |-> p] :
            p \in {q \in OwnPayloads : q.userId = "u_admin" /\ q.email = "mail"}}
    \cup {[kind |-> "jwt", key |-> "provider", expired |-> FALSE, payload |-> p] :
            p \in ProviderPayloads}
    \cup {[kind |-> "garbage"]}

AuthHeaders ==
    {NoHeader}
    \cup {[scheme |-> "Basic", token |-> [kind |-> "garbage"]],
          [scheme |-> "Bearer", token |-> NoToken]}
    \cup {[scheme |-> "Bearer", token |-> t] : t \in BearerTokens}
    \cup {[scheme |-> "bearer", token |-> [kind |-> "pearl", id |-> RandHex(1)]]}

StoreStates == {"ok", "connect_fails", "select_fails", "update_fails"}

GenerateKeyStep ==
    \E userId \in {Null, "", "u_plain"}, roles \in KeyRoleLists :
        GenerateKey(userId, roles)

DisableKeyStep ==
    \E r \in apiKeys : DisableKey(r.key_hash)

\* the key store is reached only with a service key; for any other
\* credential its state plays no part
StoreStatesFor(authHeader) ==
    IF startsWithPearl(getBearerToken(authHeader)) THEN StoreStates ELSE {"ok"}

ExtractAuthContextStep ==
    \E authHeader \in AuthHeaders :
        \E db \in StoreStatesFor(authHeader) :
            ExtractAuthContext(authHeader, db)

NextIdentity ==
    \/ GenerateKeyStep
    \/ DisableKeyStep
    \/ ExtractAuthContextStep

SpecIdentity == InitOAuth /\ [][NextIdentity]_vars

----------------------------------------------------------------------------
(* Properties of the access control evaluator *)

IsAdmin(auth) == "admin" \in auth.roles
ProbedThreadPublic == \E t \in threads : t.id = probe.threadId /\ t.isPublic
Checked == ret.op = "checkThreadAccess"

\* rank of a permission in the order admin > write > read
Rank(p) == CASE p = "read" -> 1 [] p = "write" -> 2 [] p = "admin" -> 3

\* a grant on the probed thread held through one of the caller's roles
\* whose permission is the required one or a higher one
SufficientGrant ==
    \E a \in threadAccess :
        /\ a.threadId = probe.threadId
        /\ a.role \in probe.auth.roles
        /\ Rank(a.permission) >= Rank(probe.permission)

\* C1: an identity holding admin is granted every permission on every thread
\* id, whatever grants exist and whether or not the thread is public.
C1_AdminBypass ==
    (Checked /\ IsAdmin(probe.auth)) => ret.result = TRUE

\* C1 witness: an admin was granted admin permission on a private thread
\* that has no grant at all
C1_Witness ==
    /\ Checked /\ IsAdmin(probe.auth) /\ probe.permission = "admin"
    /\ \E t \in threads : t.id = probe.threadId /\ ~t.isPublic
    /\ ~\E a \in threadAccess : a.threadId = probe.threadId
    /\ ret.result = TRUE

\* C2: read access to a public thread is granted to every identity,
\* the anonymous one and identities without any grant included.
C2_PublicRead ==
    (Checked /\ probe.permission = "read" /\ ProbedThreadPublic)
        => ret.result = TRUE

\* C2 witness: the anonymous identity read a public thread without grants
C2_Witness ==
    /\ Checked /\ probe.permission = "read" /\ ProbedThreadPublic
    /\ probe.auth.isAnonymous
    /\ ~\E a \in threadAccess : a.threadId = probe.threadId
    /\ ret.result = TRUE

\* C3: for a non-admin identity, outside the case (read on a public thread),
\* access is granted iff a grant on the thread exists for one of the
\* identity's roles with the required permission or a higher one.
C3_GrantHierarchy ==
    (Checked /\ ~IsAdmin(probe.auth)
        /\ ~(probe.permission = "read" /\ ProbedThreadPublic))
        => (ret.result = SufficientGrant)

\* C3 witness: a write grant satisfied a read check on a private thread
C3_Witness ==
    /\ Checked /\ ~IsAdmin(probe.auth) /\ probe.permission = "read"
    /\ ~ProbedThreadPublic
    /\ \E a \in threadAccess : /\ a.threadId = probe.threadId
                               /\ a.role \in probe.auth.roles
                               /\ a.permission = "write"
    /\ ret.result = TRUE

\* the threads that are public or granted to one of the roles
PublicOrGranted(roles) ==
    {t \in threads : t.isPublic
                     \/ \E a \in threadAccess : a.threadId = t.id /\ a.role \in roles}

\* C4: the thread list is every thread for an admin, and otherwise exactly
\* the threads that are public or granted to one of the identity's roles.
C4_AccessibleThreads ==
    ret.op = "thread_list"
        => ret.result = IF IsAdmin(probe.auth) THEN threads
                        ELSE PublicOrGranted(probe.auth.roles)

\* C4 witness: a non-admin without any grant listed a public thread while a
\* private thread was left out
C4_Witness ==
    /\ ret.op = "thread_list" /\ ~IsAdmin(probe.auth)
    /\ ~\E a \in threadAccess : a.role \in probe.auth.roles
    /\ \E t \in ret.result : t.isPublic
    /\ \E t \in threads : t \notin ret.result


----------------------------------------------------------------------------
(* Properties of the authorization code / token issuer *)

InvalidCode == "invalid_grant: Invalid or expired authorization code"
InvalidVerifier == "invalid_grant: Invalid code_verifier"

\* the codes for which a token response was sent
ExchangedCodes == {i.code : i \in tokensIssued}

\* the step issues and persists no token
NothingIssued == tokensIssued' = tokensIssued /\ refreshTokens' = refreshTokens

\* the step is a token exchange carrying the code of the response it leaves
ExchangeWith(code_verifier, cred) ==
    /\ resp'.op = "token"
    /\ TokenAuthorizationCode(resp'.key, code_verifier, cred[1], cred[2])

\* the challenge a verifier stands for under a method: SHA-256 then
\* base64url for S256, the verifier itself otherwise
Recomputed(method, verifier) ==
    IF method = "S256" THEN "sha256(" \o verifier \o ")" ELSE verifier

\* C5 as stated: after a successful exchange every later exchange with the
\* same code gets the 'Invalid or expired authorization code' rejection and
\* no token (no code answers two token responses).
C5_SingleUse_AsStated ==
    /\ \A i, j \in tokensIssued : i.code = j.code => i = j
    /\ (/\ resp.op = "token" /\ resp.status # 200
        /\ resp.key \in ExchangedCodes \cap codesIssued)
            => resp.error = InvalidCode

\* C5 amended: after a successful exchange every later exchange with the same
\* code issues no token and is rejected: with invalid_client when it carries
\* client credentials that fail validation, otherwise with the
\* 'Invalid or expired authorization code' rejection.
C5_SingleUse ==
    [][(resp'.op = "token" /\ resp'.key \in ExchangedCodes) =>
        \A code_verifier \in Verifiers \cup {Null}, cred \in ClientCredentials :
            ExchangeWith(code_verifier, cred)
                => /\ NothingIssued
                   /\ resp'.error = IF clientRejected(cred[1], cred[2])
                                    THEN "invalid_client" ELSE InvalidCode]_vars

\* C5 witness: an exchanged code was presented again and rejected as invalid
C5_Witness ==
    /\ resp.op = "token" /\ resp.key \in ExchangedCodes
    /\ resp.status = 400 /\ resp.error = InvalidCode

\* the code has a registered challenge that the verifier does not recompute
Mismatch(code, code_verifier) ==
    /\ MapHas(authorizationCodes, code)
    /\ Truthy(authorizationCodes[code].codeChallenge)
    /\ Recomputed(authorizationCodes[code].codeChallengeMethod, code_verifier)
            # authorizationCodes[code].codeChallenge

\* C6: an exchange for a code with a registered challenge, supplying a
\* verifier whose recomputed challenge differs from it, is rejected and
\* neither issues nor persists a token.
C6_PkceMismatch ==
    [][resp'.op = "token" =>
        \A code_verifier \in Verifiers, cred \in ClientCredentials :
            (Mismatch(resp'.key, code_verifier) /\ ExchangeWith(code_verifier, cred))
                => (resp'.status \in {400, 401} /\ NothingIssued)]_vars

\* C6 witness: an exchange for a code minted with an S256 challenge was
\* rejected for its verifier
C6_Witness ==
    /\ resp.op = "token" /\ resp.error = InvalidVerifier
    /\ resp.key \in codesIssued
    /\ MapHas(authorizationCodes, resp.key)
    /\ authorizationCodes[resp.key].codeChallengeMethod = "S256"
    /\ tokensIssued = {}

\* the last response is a rejection, for expiry or for the verifier, of an
\* exchange carrying a code the callback minted
FailedAttempt(r) ==
    /\ r.op = "token" /\ r.key \in codesIssued
    /\ r.error \in {InvalidCode, InvalidVerifier}

\* C7: an exchange attempt consumes the code even when it fails: after an
\* attempt rejected for expiry or for failed challenge verification the code
\* has been deleted, and the next exchange with it is rejected.
C7_ConsumedOnFailure ==
    [][/\ FailedAttempt(resp') => ~MapHas(authorizationCodes', resp'.key)
       /\ FailedAttempt(resp) =>
            \A code_verifier \in Verifiers \cup {Null}, cred \in ClientCredentials :
                (resp'.key = resp.key /\ ExchangeWith(code_verifier, cred))
                    => (resp'.status # 200 /\ NothingIssued)]_vars

\* C8: a callback whose pending record has passed its expiry is rejected
\* as an unknown correlation value is: the result of the provider exchange
\* is not turned into an authorization code.
C8_ExpiredPendingRejected ==
    [][(/\ resp'.op = "callback"
        /\ MapHas(authorizationCodes, PendingKey(resp'.key))
        /\ authorizationCodes[PendingKey(resp'.key)].expiresAt < now) =>
        \A user \in OAuthUsers :
            Callback("provider_code", resp'.key, user)
                => /\ resp'.status = 400
                   /\ resp'.error = "Invalid or expired state"
                   /\ codesIssued' = codesIssued]_vars

\* C9: an exchange carrying a code whose expiry has passed is rejected and
\* issues no token although the record is still in the map.
C9_ExpiredCodeRejected ==
    [][(/\ resp'.op = "token"
        /\ MapHas(authorizationCodes, resp'.key)
        /\ authorizationCodes[resp'.key].expiresAt < now) =>
        \A code_verifier \in Verifiers \cup {Null}, cred \in ClientCredentials :
            ExchangeWith(code_verifier, cred)
                => (resp'.status \in {400, 401} /\ NothingIssued)]_vars

\* C9 witness: a minted code was rejected as invalid or expired; no exchange
\* has drawn a refresh token, so no earlier exchange removed the record
C9_Witness ==
    /\ resp.op = "token" /\ resp.error = InvalidCode
    /\ resp.key \in codesIssued
    /\ tokenDraws = 0 /\ tokensIssued = {}
    /\ now > CodeTTL


----------------------------------------------------------------------------
(* Properties of the identity resolver *)

\* C10: every identity extractAuthContext returns has isAnonymous true
\* exactly when its roles are {anonymous} and its userId is null.
C10_AnonymousIff ==
    identity.auth.isAnonymous
        <=> (identity.auth.roles = {"anonymous"} /\ identity.auth.userId = Null)

\* the bearer credential of the last call resolved
LastToken == getBearerToken(identity.credential)

\* the last call carried a service key
LastIsKey == startsWithPearl(LastToken)

\* the last call carried a token that verifies as self-issued and names a user
LastIsOwnToken ==
    /\ IsJwt(LastToken)
    /\ LastToken.key = JWT_SECRET /\ ~LastToken.expired
    /\ LastToken.payload.userId \notin {Null, ""}

\* the identities stored with the enabled rows the last call matched
StoredIdentities ==
    {[userId |-> r.user_id, email |-> Null, roles |-> r.roles, isAnonymous |-> FALSE] :
        r \in identity.matched}

\* C11: extractAuthContext never raises, whatever the header and whichever
\* statement of the key store fails, and a call without a bearer credential
\* returns the anonymous identity.
C11_NeverFails ==
    /\ ~identity.raised
    /\ LastToken = NoToken => identity.auth = AnonymousContext

\* C11 witness: a service key with an enabled row was resolved while the key
\* store failed, and the call returned the anonymous identity
C11_Witness ==
    /\ LastIsKey /\ identity.matched # {}
    /\ identity.db \in {"connect_fails", "select_fails", "update_fails"}
    /\ ~identity.raised /\ identity.auth = AnonymousContext

\* C12: for a verified self-issued token the roles of the identity are those
\* resolveUserRoles gives for the token's user id; the roles embedded in the
\* token add none (admin only for a user in the admin allow-list).
C12_RolesReResolved ==
    LastIsOwnToken =>
        /\ identity.auth.userId = LastToken.payload.userId
        /\ identity.auth.roles = resolveUserRoles(LastToken.payload.userId)
        /\ "admin" \in identity.auth.roles
                => LastToken.payload.userId \in adminUserIds

\* C12 witness: a verified token embedding admin for a user outside the admin
\* allow-list was resolved without admin
C12_Witness ==
    /\ LastIsOwnToken
    /\ "admin" \in LastToken.payload.roles
    /\ LastToken.payload.userId \notin adminUserIds
    /\ "admin" \notin identity.auth.roles

\* the last call carried a token with the payload of a self-issued one that
\* jwt.verify refuses: past its exp claim, or not signed with JWT_SECRET
LastIsUnverifiableOwnToken ==
    /\ IsJwt(LastToken)
    /\ LastToken.payload.userId # Null /\ LastToken.payload.sub = Null
    /\ (LastToken.expired \/ LastToken.key # JWT_SECRET)

\* C32: an expired or otherwise unverifiable self-issued token resolves to
\* the anonymous identity, and the call does not raise.
C32_UnverifiableIsAnonymous ==
    LastIsUnverifiableOwnToken =>
        ~identity.raised /\ identity.auth = AnonymousContext

\* C32 witness: an expired token naming an administrator was resolved to the
\* anonymous identity
C32_Witness ==
    /\ LastIsUnverifiableOwnToken /\ LastToken.expired
    /\ LastToken.payload.userId \in adminUserIds
    /\ ~identity.raised /\ identity.auth = AnonymousContext

C14_LastUsedBestEffort ==
    (LastIsKey /\ identity.matched # {} /\ identity.db = "update_fails")
        => identity.auth \in StoredIdentities

----------------------------------------------------------------------------
(* Properties of the write path *)

\* the results that stand for a raised error
ErrorResults ==
    {"error_auth_required", "error_thread_not_found", "error_no_write_access",
     "error_pearl_not_found", "error_correction_not_found", "error_store",
     "error_admin_required", "error_unique_slug"}

\* the caller may write to the thread with this slug
MayWrite(auth, slug) ==
    \E t \in threads : t.slug = slug /\ checkThreadAccess(t.id, auth, "write")

\* the step is a call of createPearl through one of its two tools
CreatesThrough(auth, thread) ==
    \/ HandlePearlCreate(auth, thread)
    \/ HandlePearlHandshake(auth, NullList, NoLimit, "ack", thread)

\* the row mark-corrected is called on, as a set (empty when no row has the id)
Target == {p \in pearls : p.id = correction.pearlId}

\* C15: create content called with an anonymous identity raises the
\* authentication error whatever the thread (not the error of the thread
\* lookup or of the access check) and persists no record.
C15_AnonymousCreateRejected ==
    [][ret'.op = "pearl_create" =>
        \A auth \in PearlCallers, thread \in {ContentSlug, NoSlug} :
            (auth.isAnonymous /\ HandlePearlCreate(auth, thread))
                => (ret'.result = "error_auth_required" /\ pearls' = pearls)]_vars

\* C15 witness: the anonymous caller was refused while the anonymous role
\* holds a write grant on the thread, and no record exists
C15_Witness ==
    /\ probe.auth.isAnonymous
    /\ MayWrite(probe.auth, ContentSlug)
    /\ ret = [op |-> "pearl_create", result |-> "error_auth_required"]
    /\ pearls = {}

\* C16: every record createPearl persists belongs to an existing thread and
\* was created by a caller with write access to it at that moment; a call
\* lacking write access or naming an unknown slug raises an error and
\* persists nothing.
C16_CreateNeedsWrite ==
    [][/\ \A p \in pearls' : \E t \in threads' : t.id = p.threadId
       /\ ret'.op \in {"pearl_create", "pearl_handshake"} =>
            \A auth \in PearlCallers, thread \in {ContentSlug, NoSlug} :
                CreatesThrough(auth, thread) =>
                    IF MayWrite(auth, thread)
                    THEN \A p \in pearls' \ pearls :
                            /\ \E t \in threads : t.slug = thread /\ t.id = p.threadId
                            /\ p.createdBy = auth.userId
                    ELSE pearls' = pearls /\ ret'.result \in ErrorResults]_vars

\* C16 witness: a record was persisted, and the handshake response of a
\* caller without write access to the thread was refused
C16_Witness ==
    /\ pearls # {}
    /\ "admin" \notin probe.auth.roles
    /\ ~MayWrite(probe.auth, ContentSlug)
    /\ ret = [op |-> "pearl_handshake", result |-> "error_no_write_access"]

\* C17: create thread called by an identity without admin raises an error
\* and persists neither a thread nor a grant; a thread is only ever added by
\* a call of an identity holding admin.
C17_ThreadCreateAdminOnly ==
    [][/\ ret'.op = "thread_create" =>
            \A auth \in CallerContexts, isPublic \in BOOLEAN,
               grant_access \in SUBSET ContentGrants :
                ("admin" \notin auth.roles
                    /\ HandleThreadCreate(auth, ContentSlug, isPublic, grant_access))
                    => /\ threads' = threads /\ threadAccess' = threadAccess
                       /\ ret'.result \in ErrorResults
       /\ (threads' # threads \/ threadAccess' # threadAccess) =>
            \E auth \in CallerContexts, isPublic \in BOOLEAN,
               grant_access \in SUBSET ContentGrants :
                /\ "admin" \in auth.roles
                /\ HandleThreadCreate(auth, ContentSlug, isPublic, grant_access)]_vars

\* C17 witness: a call without admin was refused and no thread exists
C17_Witness ==
    /\ ret = [op |-> "thread_create", result |-> "error_admin_required"]
    /\ threads = {} /\ threadAccess = {}

\* C18: no two threads share a slug, and create thread with the slug of an
\* existing thread raises an error and leaves the threads and the grants
\* unchanged.
C18_SlugUnique ==
    [][/\ \A t, u \in threads' : t.slug = u.slug => t = u
       /\ (ret'.op = "thread_create" /\ \E t \in threads : t.slug = ContentSlug) =>
            \A auth \in CallerContexts, isPublic \in BOOLEAN,
               grant_access \in SUBSET ContentGrants :
                HandleThreadCreate(auth, ContentSlug, isPublic, grant_access) =>
                    /\ threads' = threads /\ threadAccess' = threadAccess
                    /\ ret'.result \in ErrorResults]_vars

\* C18 witness: an administrator's call with a taken slug was refused
C18_Witness ==
    /\ ret = [op |-> "thread_create", result |-> "error_unique_slug"]
    /\ Cardinality(threads) = 1

\* C19: after a successful mark-corrected on A with correctionId B, A has
\* status corrected and B has parentPearl A; when correctionId names no
\* record the call raises an error and changes no record.
C19_CorrectionLinks ==
    [][PearlCorrectStep =>
        /\ ret'.result = "success" =>
            /\ \E a \in pearls' : a.id = correction.pearlId /\ a.status = "corrected"
            /\ correction.correctionId # NoPearl =>
                \E b \in pearls' : /\ b.id = correction.correctionId
                                   /\ b.parentPearl = correction.pearlId
        /\ (/\ correction.correctionId # NoPearl
            /\ \A b \in pearls : b.id # correction.correctionId) =>
                (pearls' = pearls /\ ret'.result \in ErrorResults)]_vars

\* C19 witness: A was marked corrected with another record B as its
\* correction, and B points to A
C19_Witness ==
    /\ ret = [op |-> "pearl_correct", result |-> "success"]
    /\ correction.correctionId \notin {NoPearl, correction.pearlId}
    /\ \E a, b \in pearls :
        /\ a.id = correction.pearlId /\ a.status = "corrected"
        /\ b.id = correction.correctionId /\ b.parentPearl = a.id
        /\ b.status = "active"

\* C20: mark-corrected called by an anonymous identity, or by one without
\* write access to the thread owning the target record, raises an error and
\* leaves every record unchanged.
C20_CorrectNeedsWrite ==
    [][(/\ PearlCorrectStep
        /\ \/ probe.auth.isAnonymous
           \/ \E a \in Target : ~checkThreadAccess(a.threadId, probe.auth, "write")) =>
        (pearls' = pearls /\ ret'.result \in ErrorResults)]_vars

\* C20 witness: a caller who is not anonymous was refused for lack of write
\* access to the thread of an existing record
C20_Witness ==
    /\ ret = [op |-> "pearl_correct", result |-> "error_no_write_access"]
    /\ ~probe.auth.isAnonymous
    /\ Target # {}
    /\ \A p \in pearls : p.status = "active" /\ p.parentPearl = NoPearl

----------------------------------------------------------------------------
(* Properties of the record status *)

\* C21: a record is created with status active, the only change of status
\* any operation performs is from active to corrected, and a corrected
\* record stays corrected.
C21_StatusOneWay ==
    [][/\ \A q \in pearls' :
            (~\E p \in pearls : p.id = q.id) => q.status = "active"
       /\ \A p \in pearls : \E q \in pearls' :
            /\ q.id = p.id
            /\ q.status # p.status => (p.status = "active" /\ q.status = "corrected")
            /\ p.status = "corrected" => q.status = "corrected"]_vars

\* C21 witness: a record was marked corrected, and a record created after
\* that call is active beside it
C21_Witness ==
    /\ ret = [op |-> "pearl_create", result |-> "success"]
    /\ \E p \in pearls, q \in pearls :
        /\ p.status = "corrected" /\ p.metadata.correctedBy # Null
        /\ q.status = "active" /\ q.createdAt > p.createdAt

----------------------------------------------------------------------------
(* Properties of the tool dispatcher *)

\* the fixed operation set: create content, search content, list recent
\* content, handshake, list threads, create thread, mark content corrected
FixedOperations ==
    {"pearl_create", "pearl_search", "pearl_recent", "pearl_handshake", "thread_list",
     "thread_create", "pearl_correct"}

\* C22: a call naming any operation of the fixed operation set is routed to
\* the handler of that operation and is not reported as an unknown operation.
C22_RegistryComplete ==
    (res.tool \in FixedOperations /\ res.status = 200)
        => res.message # "error_unknown_tool"

\* C23: every failure of a tool call handled by the call handler (unknown
\* name, argument validation failure, an error thrown by a handler, storage
\* failure) is answered in the normal shape with isError = true and the body
\* {error: true, message}; none escapes to the transport; an unknown name
\* calls no handler and changes no table.
C23_FailuresEnveloped ==
    [][res'.status # 401 =>
        /\ res'.status = 200
        /\ thrown(ret') => /\ res'.isError /\ res'.error
                           /\ res'.message = ret'.result
        /\ ~thrown(ret') => (~res'.isError /\ ~res'.error)
        /\ res'.tool \notin {"pearl_create", "pearl_search", "pearl_recent",
                             "pearl_handshake", "thread_list", "thread_create"}
            => /\ res'.isError /\ res'.message = "error_unknown_tool"
               /\ UNCHANGED <<threads, threadAccess, pearls>>]_vars

\* C23 witness: the store failed under a search over existing records and
\* the call was answered with the error envelope
C23_Witness ==
    /\ res = [tool |-> "pearl_search", status |-> 200, isError |-> TRUE,
              error |-> TRUE, message |-> "error_store"]
    /\ pearls # {}

----------------------------------------------------------------------------
(* Properties of the read path *)

\* the slug names no thread, or a thread the caller may not read
Unreadable(thread, auth) ==
    \A t \in threads : t.slug = thread => ~checkThreadAccess(t.id, auth, "read")

\* the caller is no admin and no thread is public or granted to its roles
NothingAccessible(auth) ==
    ~IsAdmin(auth) /\ PublicOrGranted(auth.roles) = {}

\* the answer of a read that found nothing
EmptyAnswer(tool) ==
    /\ ret' = [op |-> tool, result |-> "success"]
    /\ results' = <<>>
    /\ res' = [tool |-> tool, status |-> 200, isError |-> FALSE, error |-> FALSE,
               message |-> ""]

\* the step is a list-recent call or a search of the caller of the probe
ReadsRecent(thread, limit, before) ==
    McpPost(FALSE, "pearl_recent",
            [NoArgs EXCEPT !.thread = thread, !.limit = limit, !.before = before],
            probe.auth)
Searches(thread, limit) ==
    McpPost(FALSE, "pearl_search", [NoArgs EXCEPT !.thread = thread, !.limit = limit],
            probe.auth)

\* C24: list recent and search answer a slug of no thread and a slug of a
\* thread the caller cannot read alike, with an empty result and no error;
\* so they answer a non-admin caller without any accessible thread that
\* names no thread.
C24_ReadFailsEmpty ==
    [][/\ (ret'.op = "pearl_recent" /\ ~EmptyAnswer("pearl_recent")) =>
            \A query \in RecentQueries :
                (/\ \/ Truthy(query[1]) /\ Unreadable(query[1], probe.auth)
                    \/ ~Truthy(query[1]) /\ NothingAccessible(probe.auth)
                 /\ ~recentInputInvalid(query[2], query[3]))
                    => ~ReadsRecent(query[1], query[2], query[3])
       /\ (ret'.op = "pearl_search" /\ ~EmptyAnswer("pearl_search")) =>
            \A query \in SearchQueries :
                (/\ \/ Truthy(query[1]) /\ Unreadable(query[1], probe.auth)
                    \/ ~Truthy(query[1]) /\ NothingAccessible(probe.auth)
                 /\ query[2] # 0)
                    => ~Searches(query[1], query[2])]_vars

\* C24 witness: records exist, every thread is closed to the caller, and a
\* list-recent call was answered with an empty result
C24_Witness ==
    /\ ret = [op |-> "pearl_recent", result |-> "success"]
    /\ results = <<>> /\ ~res.isError
    /\ pearls # {}
    /\ Cardinality(threads) = 2
    /\ \A t \in threads : ~checkThreadAccess(t.id, probe.auth, "read")

\* every record of the result lies in one of the threads
AllIn(result, threadSet) ==
    \A i \in 1..Len(result) : \E t \in threadSet : result[i].threadId = t.id

\* what C25 says of a result: with a thread argument its records lie in
\* that thread and the caller passes checkThreadAccess(thread, read);
\* without one they lie in threads that are public or granted to a role
Filtered(thread, result, auth) ==
    IF Truthy(thread)
    THEN /\ AllIn(result, getThreadBySlug(thread))
         /\ \A t \in getThreadBySlug(thread) : checkThreadAccess(t.id, auth, "read")
    ELSE AllIn(result, PublicOrGranted(auth.roles))

\* C25: for a non-admin caller every record list recent or search returns
\* without a thread argument lies in a thread that is public or granted to
\* one of the caller's roles; with a thread argument every record lies in
\* that thread and the caller passes checkThreadAccess(thread, read).
C25_ReadFiltered ==
    [][(/\ ret'.op \in {"pearl_recent", "pearl_search"}
        /\ results' # <<>> /\ ~IsAdmin(probe.auth)) =>
        /\ \A query \in RecentQueries :
                \/ Filtered(query[1], results', probe.auth)
                \/ ~ReadsRecent(query[1], query[2], query[3])
        /\ \A query \in SearchQueries :
                \/ Filtered(query[1], results', probe.auth)
                \/ ~Searches(query[1], query[2])]_vars

\* C25 witness: a member who is no admin listed, without thread argument,
\* a record of a public thread and a record of a private thread granted to
\* members
C25_Witness ==
    /\ ret = [op |-> "pearl_recent", result |-> "success"]
    /\ ~IsAdmin(probe.auth) /\ Len(results) = 2
    /\ \E t \in threads, u \in threads :
        /\ results[1].threadId = t.id /\ t.isPublic
        /\ results[2].threadId = u.id /\ ~u.isPublic
        /\ \E a \in threadAccess : a.threadId = u.id /\ a.role = "aurora:member"

\* the most records a list-recent call with this limit may return
AtMost(limit) ==
    IF limit = NoLimit THEN DefaultLimit
    ELSE IF limit < MaxLimit THEN limit ELSE MaxLimit

\* C26: list recent returns its records by creation timestamp descending,
\* at most min(limit, MaxLimit) of them (DefaultLimit without a limit), and
\* with a cursor only records created strictly before it.
C26_RecentOrderedCapped ==
    [][(ret'.op = "pearl_recent" /\ ret'.result = "success") =>
        /\ \A i, j \in 1..Len(results') :
                i < j => results'[i].createdAt >= results'[j].createdAt
        /\ \A query \in RecentQueries :
                \/ /\ Len(results') <= AtMost(query[2])
                   /\ query[3] # NoCursor =>
                        \A i \in 1..Len(results') : results'[i].createdAt < query[3]
                \/ ~ReadsRecent(query[1], query[2], query[3])]_vars

\* C26 witness: the list holds the older of two records of a thread alone:
\* the cursor was the timestamp of the newer one, which is left out
C26_Witness ==
    /\ ret = [op |-> "pearl_recent", result |-> "success"]
    /\ Len(results) = 1
    /\ \E p \in pearls :
        /\ p.threadId = results[1].threadId
        /\ p.createdAt = 2 /\ results[1].createdAt < 2

\* the record the last create-content call persisted
Created == {p \in pearls : p.id = Cardinality(pearls)}

\* C27: after a create-content call succeeded on a thread, a list-recent
\* call on that thread without cursor, made next by a caller with read
\* access to it, returns the created record as its first entry.
C27_CreateThenRecent ==
    [][(/\ ret = [op |-> "pearl_create", result |-> "success"]
        /\ ret'.op = "pearl_recent") =>
        \A p \in Created, t \in threads, query \in RecentQueries :
            (/\ t.id = p.threadId /\ query[1] = t.slug /\ query[3] = NoCursor
             /\ ~recentInputInvalid(query[2], query[3])
             /\ checkThreadAccess(t.id, probe.auth, "read")
             /\ ReadsRecent(query[1], query[2], query[3]))
                => (Len(results') >= 1 /\ results'[1] = p)]_vars

\* C27 witness: the newest of two records of a thread heads the list a
\* caller who is no admin was given
C27_Witness ==
    /\ ret = [op |-> "pearl_recent", result |-> "success"]
    /\ ~IsAdmin(probe.auth)
    /\ Len(results) >= 1 /\ results[1] \in Created
    /\ \E p \in pearls : p.threadId = results[1].threadId /\ p.createdAt < results[1].createdAt

----------------------------------------------------------------------------
(* Properties of the handshake *)

\* the step is a handshake of the caller of the probe
Handshakes(gate, query) ==
    McpPost(gate, "pearl_handshake",
            [NoArgs EXCEPT !.threads = query[1], !.limit = query[2],
                           !.response = query[3], !.response_thread = query[4]],
            probe.auth)

\* the accessible threads among those a handshake asks for
Asked(threadsArg, auth) ==
    {t \in (IF IsAdmin(auth) THEN threads ELSE PublicOrGranted(auth.roles)) :
        threadsArg = NullList \/ t.slug \in threadsArg}

\* the call was refused: by the error envelope or by the 401 of the route
Refused == (res'.status = 200 /\ res'.isError /\ res'.error) \/ res'.status = 401

\* what C28 says of a handshake with these arguments
FailsClosed(query) ==
    /\ pearls' # pearls =>
        /\ Truthy(query[3]) /\ Truthy(query[4])
        /\ ~probe.auth.isAnonymous /\ MayWrite(probe.auth, query[4])
        /\ \E p \in pearls' \ pearls :
            /\ pearls' = pearls \cup {p}
            /\ \E t \in threads : t.slug = query[4] /\ p.threadId = t.id
    /\ (/\ Truthy(query[3]) /\ Truthy(query[4])
        /\ (probe.auth.isAnonymous \/ ~MayWrite(probe.auth, query[4])))
            => (Refused /\ pearls' = pearls)
    /\ ~Refused =>
        /\ AllIn(results', Asked(query[1], probe.auth))
        /\ \A t \in Asked(query[1], probe.auth), p \in pearls :
                (p.threadId = t.id /\ query[2] = NoLimit)
                    => \E i \in 1..Len(results') : results'[i].threadId = t.id

\* C28: a handshake supplying a response and a response thread persists a
\* record only if the caller is not anonymous and has write access to that
\* thread, and otherwise is refused and persists nothing; the records it
\* returns lie in accessible threads among those asked for, the other slugs
\* being dropped without error.
C28_HandshakeFailsClosed ==
    [][res'.tool = "pearl_handshake" =>
        \A query \in HandshakeQueries :
            \/ FailsClosed(query)
            \/ \A gate \in GatesFor("pearl_handshake", probe.auth) :
                    ~Handshakes(gate, query)]_vars

\* C28 witness: a caller without write access to the response thread left a
\* response: the call raised the access error, and the record of the thread
\* is the only one
C28_Witness ==
    /\ ~probe.auth.isAnonymous /\ ~MayWrite(probe.auth, "s1")
    /\ ret = [op |-> "pearl_handshake", result |-> "error_no_write_access"]
    /\ res.isError
    /\ \E t \in threads : t.slug = "s1" /\ t.isPublic
    /\ Cardinality(pearls) = 1

\* C29: a handshake of the anonymous caller that supplies no response is
\* served and not rejected: it is answered with the recent records of the
\* public threads it asks for.
C29_AnonymousHandshakeServed ==
    [][(res'.tool = "pearl_handshake" /\ probe.auth.isAnonymous) =>
        \A query \in HandshakeQueries, gate \in GatesFor("pearl_handshake", probe.auth) :
            (/\ query[2] = NoLimit /\ query[3] = Null /\ query[4] = Null
             /\ Handshakes(gate, query))
                => /\ res'.status = 200 /\ ~res'.isError
                   /\ AllIn(results', {t \in threads : t.isPublic})]_vars

\* the refresh token has a stored row that has not expired
Unexpired(refresh_token) ==
    \E r \in refreshTokens :
        r.token_hash = Sha256Hex(refresh_token) /\ now < r.expires_at

\* the access token signed for the user of the refresh token's row, with the
\* roles the resolver returns now
SignedFor(refresh_token) ==
    {[userId |-> r.user_id, email |-> r.email, roles |-> resolveUserRoles(r.user_id)] :
        r \in {q \in refreshTokens : q.token_hash = Sha256Hex(refresh_token)}}

InvalidRefresh == "invalid_grant: Invalid or expired refresh token"

\* C30 as stated (store failures set aside): a refresh request carrying an
\* unexpired refresh token succeeds, and one carrying an unknown or expired
\* refresh token is rejected with invalid_grant.
C30_RefreshReusable_AsStated ==
    [][(resp'.op = "refresh" /\ resp'.status # 500) =>
        \A refresh_token \in PresentableRefreshTokens \ {Null}, cred \in ClientCredentials :
            \/ IF Unexpired(refresh_token)
               THEN resp'.status = 200
               ELSE resp'.error = InvalidRefresh
            \/ ~TokenRefresh(refresh_token, cred[1], cred[2])]_vars

\* what a refresh request with the given token and client credentials leaves
RefreshOutcome(refresh_token, cred) ==
    /\ refreshTokens' = refreshTokens
    /\ tokensIssued' = tokensIssued
    /\ IF clientRejected(cred[1], cred[2])
       THEN resp'.error = "invalid_client" /\ minted' = NoAccessToken
       ELSE IF refresh_token = Null
       THEN resp'.error = "invalid_request" /\ minted' = NoAccessToken
       ELSE IF resp'.status = 500
       THEN minted' = NoAccessToken
       ELSE IF Unexpired(refresh_token)
       THEN resp'.status = 200 /\ minted' \in SignedFor(refresh_token)
       ELSE resp'.error = InvalidRefresh /\ minted' = NoAccessToken

\* C30 amended: a refresh request never consumes or rotates a refresh token.
\* A request whose client credentials fail validation is rejected with
\* invalid_client whatever token it carries; otherwise, unless the store
\* fails, a request carrying an unexpired refresh token succeeds with an
\* access token for the token's user with the roles the resolver returns at
\* that time, and one carrying an unknown or expired refresh token is
\* rejected with invalid_grant and mints nothing.
C30_RefreshReusable ==
    [][resp'.op = "refresh" =>
        \A refresh_token \in PresentableRefreshTokens, cred \in ClientCredentials :
            \/ RefreshOutcome(refresh_token, cred)
            \/ ~TokenRefresh(refresh_token, cred[1], cred[2])]_vars

\* C30 witness: a refresh succeeded after time has passed since the first
\* token response, and the refresh tokens are all still stored
C30_Witness ==
    /\ resp.op = "refresh" /\ resp.status = 200
    /\ minted # NoAccessToken
    /\ now > 0
    /\ \A i \in tokensIssued : Unexpired(i.refresh_token)

\* C31: every failing response of the authorization flow carries an error
\* code together with a human-readable description.
C31_StructuredRejections ==
    resp.status >= 400 => resp.body = ErrorDescription

\* C36: mark-corrected changes records only in threads the caller has write
\* access to, the record named by correctionId included.
C36_CorrectWritesOwnThreads ==
    [][PearlCorrectStep =>
        \A p \in pearls :
            p \notin pearls' => checkThreadAccess(p.threadId, probe.auth, "write")]_vars

\* C38: a handshake that supplies a response persists a record or returns
\* an error, also when it names no response thread.
C38_ResponseNotDiscarded ==
    [][ret'.op = "pearl_handshake" =>
        \A auth \in PearlCallers, response_thread \in {ContentSlug, NoSlug, Null} :
            \/ pearls' # pearls
            \/ ret'.result \in ErrorResults
            \/ ~HandlePearlHandshake(auth, NullList, NoLimit, "ack", response_thread)]_vars

\* C34: every token response answers an authorization code the callback
\* minted; no pending-authorization record is redeemed as a code.
C34_OnlyMintedCodesRedeemed ==
    \A i \in tokensIssued : i.code \in codesIssued

\* C35: a token exchange without a verifier, for a code minted with a
\* registered challenge, is rejected and issues no token.
C35_ChallengeNeedsVerifier ==
    [][resp'.op = "token" =>
        \A code \in codesIssued \cap DOMAIN authorizationCodes, cred \in ClientCredentials :
            Truthy(authorizationCodes[code].codeChallenge) =>
                \/ resp'.status # 200 /\ tokensIssued' = tokensIssued
                \/ ~TokenAuthorizationCode(code, Null, cred[1], cred[2])]_vars

----------------------------------------------------------------------------
(* Properties of concurrent requests *)

\* the requests of a kind, by their place in the order of arrival
RequestsOf(kind) == {i \in 1..Len(requests) : requests[i].kind = kind}

\* the requests of a kind carrying a key that got past its lookup: suspended
\* at an await, or answered other than with a 4xx rejection
PastLookup(kind, key) ==
    {i \in RequestsOf(kind) :
        /\ requests[i].key = key
        /\ requests[i].pc # "done" \/ requests[i].status \in {200, 302, 500}}

\* C33: whatever the interleaving at the awaits, of the token exchanges
\* carrying one authorization code at most one is issued tokens, and of the
\* callbacks carrying one correlation value at most one mints a code.
C33_AtMostOneWins ==
    /\ \A i, j \in tokensIssued : i.code = j.code => i = j
    /\ \A i \in RequestsOf("token") :
            Cardinality(PastLookup("token", requests[i].key)) <= 1
    /\ \A i \in RequestsOf("callback") :
            Cardinality(PastLookup("callback", requests[i].key)) <= 1

\* C33 witness: while a token exchange was suspended at an await of the
\* store, a second exchange carrying the same code ran and was rejected
C33_Witness ==
    \E i, j \in RequestsOf("token") :
        /\ i < j /\ requests[i].key = requests[j].key
        /\ requests[i].pc \in {"connect", "insert"}
        /\ requests[j].pc = "done" /\ requests[j].status = 400
        /\ requests[j].error = "invalid_grant: Invalid or expired authorization code"

\* C37 as stated: after a callback carrying a correlation value, every later
\* callback carrying the same value is rejected.
C37_PendingSingleUse_AsStated ==
    \A i, j \in RequestsOf("callback") :
        (i < j /\ requests[i].key = requests[j].key) => requests[j].status = 400

\* C37 amended: the first callback carrying a correlation value together
\* with a provider code removes the pending record before the provider
\* exchange, and every later callback carrying the same value with a code is
\* rejected as invalid or expired, whether the first is still suspended,
\* minted a code or failed at the provider; a callback without a provider
\* code is rejected as missing its parameters.
C37_PendingSingleUse ==
    /\ \A i, j \in RequestsOf("callback") :
            (/\ i < j /\ requests[i].key = requests[j].key
             /\ requests[i].hasCode /\ requests[j].hasCode)
                => /\ requests[j].status = 400
                   /\ requests[j].error = "Invalid or expired state"
    /\ \A i \in RequestsOf("callback") :
            /\ ~requests[i].hasCode
                    => (requests[i].status = 400
                        /\ requests[i].error = "Missing code or state")
            /\ requests[i].pc = "provider"
                    => ~MapHas(authorizationCodes, PendingKey(requests[i].key))

\* C37 witness: the provider exchange of the first callback failed, and a
\* later callback with the same correlation value was rejected as invalid
C37_Witness ==
    \E i, j \in RequestsOf("callback") :
        /\ i < j /\ requests[i].key = requests[j].key
        /\ requests[i].status = 500 /\ requests[i].error = "Authentication failed"
        /\ requests[j].hasCode
        /\ requests[j].status = 400 /\ requests[j].error = "Invalid or expired state"

====
